---- MODULE Spec2Model ----
(***************************************************************************)
(* things-bridge: the read side of the bridge (db/queries.ts, the          *)
(* recurrence-aware revision), its routes, and the calibration cache; the  *)
(* connection (db/connection.ts); the AppleScript executor and the write   *)
(* routes of the to-dos.                                                   *)
(*                                                                         *)
(* The store (the Things 3 SQLite database) is owned by another process:   *)
(* its tables are state variables that the bridge only reads.  A request   *)
(* handler is synchronous and is one action; it leaves its HTTP answer in  *)
(* `response`.  Any change of the store or of the clock clears `response`  *)
(* (the answer has been sent), so a state with a response is the state the *)
(* handler read.                                                           *)
(*                                                                         *)
(* Encodings.  SQL NULL / JS null of a numeric column is NULL (-1; every   *)
(* stored number of the model is >= 0).  A text is a sequence of           *)
(* one-character strings, the null text is NullText.  A calendar date      *)
(* string YYYY-MM-DD is the number of its UTC day (days since 1970-01-01); *)
(* an ISO timestamp string is its number of milliseconds.                  *)
(***************************************************************************)
EXTENDS Integers, Sequences, FiniteSets, TLC

VARIABLES
    tasks,                 \* TMTask: uuid -> row
    tmArea,                \* TMArea: uuid -> title
    tmTag,                 \* TMTag: uuid -> title
    tmTaskTag,             \* TMTaskTag: set of <<task uuid, tag uuid>>
    tmChecklistItem,       \* TMChecklistItem: set of rows
    now,                   \* the clock, Date.now() in whole seconds
    startDateEpochOffset,  \* the module-level calibration cache
    calibrationQueries,    \* how often calibrateStartDateEpoch queried the store
    response,              \* the answer of the request handled last
    request,               \* the request received last
    db,                    \* the module-level connection of db/connection.ts
    connections,           \* every connection opened so far, in order
    scripts                \* the AppleScripts the request handled last ran

vars == <<tasks, tmArea, tmTag, tmTaskTag, tmChecklistItem, now,
          startDateEpochOffset, calibrationQueries, response, request,
          db, connections, scripts>>

store == <<tasks, tmArea, tmTag, tmTaskTag, tmChecklistItem>>

----------------------------------------------------------------------------
(* Constants of the program *)

NULL == -1
NullText == <<"NULL">>
EmptyString == -2
Infinity == 2147483647

STATUS_INCOMPLETE == 0
STATUS_CANCELED == 2
STATUS_COMPLETED == 3

TYPE_TODO == 0
TYPE_PROJECT == 1
TYPE_HEADING == 2

START_BUCKET_ANYTIME == 0
START_BUCKET_SOMEDAY == 1

SecondsPerDay == 86400
FallbackOffset == 1637712000
LogbookLimit == 50
SearchLimit == 50

HalfDay == SecondsPerDay \div 2

FuDaily == 4
BlobWithoutFu == -2

----------------------------------------------------------------------------
(* SQL comparison: a comparison with NULL is not true *)

SqlEq(a, b) == a # NULL /\ b # NULL /\ a = b
SqlGe(a, b) == a # NULL /\ b # NULL /\ a >= b
SqlGt(a, b) == a # NULL /\ b # NULL /\ a > b
SqlLt(a, b) == a # NULL /\ b # NULL /\ a < b

(* All orders of the keys' domain that ORDER BY key ASC allows: rows with  *)
(* equal keys come in any order; NULL sorts first (NULL = -1 is below      *)
(* every stored number).                                                   *)
RECURSIVE TiedOrders(_)
TiedOrders(k) ==
    IF DOMAIN k = {} THEN {<<>>}
    ELSE LET D == DOMAIN k
             mins == {u \in D : \A v \in D : k[u] <= k[v]}
         IN  UNION {{<<u>> \o s : s \in TiedOrders([v \in D \ {u} |-> k[v]])} : u \in mins}

(* The one order when no two keys are equal: each row at its rank *)
RankOrder(k) ==
    LET D == DOMAIN k
        rank == [u \in D |-> Cardinality({v \in D : k[v] < k[u]})]
    IN  [i \in 1..Cardinality(D) |-> CHOOSE u \in D : rank[u] = i - 1]

AscOrders(k) ==
    IF Cardinality({k[u] : u \in DOMAIN k}) = Cardinality(DOMAIN k)
    THEN {RankOrder(k)}
    ELSE TiedOrders(k)

(* ORDER BY key DESC: NULL sorts last *)
DescOrders(k) == AscOrders([u \in DOMAIN k |-> -k[u]])

(* LIMIT n left out *)
Limit_Unlimited(s, n) == s

(* LIMIT n *)
Limit(s, n) == IF Len(s) <= n THEN s ELSE SubSeq(s, 1, n)

Range(s) == {s[i] : i \in DOMAIN s}

----------------------------------------------------------------------------
(* Row decoder *)

(* statusToString with a default of "canceled" *)
statusToString_DefaultCanceled(status) ==
    CASE status = STATUS_COMPLETED -> "completed"
      [] status = STATUS_INCOMPLETE -> "incomplete"
      [] OTHER -> "canceled"

statusToString(status) ==
    CASE status = STATUS_COMPLETED -> "completed"
      [] status = STATUS_CANCELED -> "canceled"
      [] OTHER -> "incomplete"

typeToString(type) ==
    CASE type = TYPE_PROJECT -> "project"
      [] type = TYPE_HEADING -> "heading"
      [] OTHER -> "to-do"

(* startToString with the bucket rule tried before the scheduled rule *)
startToString_BucketFirst(start, startBucket, startDate) ==
    IF start = 2 THEN "Someday"
    ELSE IF startBucket = START_BUCKET_SOMEDAY THEN "Someday"
    ELSE IF start = 1 /\ startDate # NULL THEN "Anytime"
    ELSE IF start = 0 /\ startDate = NULL THEN "Inbox"
    ELSE "Anytime"

(* startToString without the bucket rule *)
startToString_NoBucketRule(start, startBucket, startDate) ==
    IF start = 2 THEN "Someday"
    ELSE IF start = 1 /\ startDate # NULL THEN "Anytime"
    ELSE IF start = 0 /\ startDate = NULL THEN "Inbox"
    ELSE "Anytime"

startToString(start, startBucket, startDate) ==
    IF start = 2 THEN "Someday"
    ELSE IF start = 1 /\ startDate # NULL THEN "Anytime"
    ELSE IF startBucket = START_BUCKET_SOMEDAY THEN "Someday"
    ELSE IF start = 0 /\ startDate = NULL THEN "Inbox"
    ELSE "Anytime"

unixToISO(timestamp) ==
    IF timestamp = NULL THEN NULL ELSE timestamp * 1000

(* timestamp ?? "" *)
OrEmpty(v) == IF v = NULL THEN EmptyString ELSE v

(* text ?? "" *)
TextOrEmpty(t) == IF t = NullText THEN <<>> ELSE t

todayMidnightUnix(clock) == (clock \div SecondsPerDay) * SecondsPerDay

----------------------------------------------------------------------------
(* Epoch calibrator *)

(* SELECT startDate FROM TMTask WHERE start = 1 AND startDate IS NOT NULL  *)
(* AND status = 0 AND trashed = 0 ORDER BY startDate DESC LIMIT 1: the     *)
(* startDate of the row found, NULL when there is none.                    *)
(* CalibrationRow with ORDER BY startDate ASC *)
CalibrationRow_Least(table) ==
    LET S == {table[u].startDate : u \in {v \in DOMAIN table :
                  /\ SqlEq(table[v].start, 1)
                  /\ table[v].startDate # NULL
                  /\ SqlEq(table[v].status, 0)
                  /\ SqlEq(table[v].trashed, 0)}}
    IN  IF S = {} THEN NULL ELSE CHOOSE d \in S : \A e \in S : d <= e

CalibrationRow(table) ==
    LET S == {table[u].startDate : u \in {v \in DOMAIN table :
                  /\ SqlEq(table[v].start, 1)
                  /\ table[v].startDate # NULL
                  /\ SqlEq(table[v].status, 0)
                  /\ SqlEq(table[v].trashed, 0)}}
    IN  IF S = {} THEN NULL ELSE CHOOSE d \in S : \A e \in S : e <= d

(* calibrateStartDateEpoch with the day of the clock as its fallback *)
calibrateStartDateEpoch_ClockFallback(cache, table, clock) ==
    IF cache # NULL THEN cache
    ELSE LET rowStartDate == CalibrationRow(table)
         IN  todayMidnightUnix(clock)
             - (IF rowStartDate # NULL
                THEN (rowStartDate \div SecondsPerDay) * SecondsPerDay ELSE 0)

(* calibrateStartDateEpoch without its early return *)
calibrateStartDateEpoch_NoCache(cache, table, clock) ==
    LET rowStartDate == CalibrationRow(table)
    IN  IF rowStartDate # NULL
        THEN todayMidnightUnix(clock)
             - (rowStartDate \div SecondsPerDay) * SecondsPerDay
        ELSE FallbackOffset

(* The value calibrateStartDateEpoch returns when the cache holds `cache`  *)
calibrateStartDateEpoch(cache, table, clock) ==
    IF cache # NULL THEN cache
    ELSE LET rowStartDate == CalibrationRow(table)
         IN  IF rowStartDate # NULL
             THEN todayMidnightUnix(clock)
                  - (rowStartDate \div SecondsPerDay) * SecondsPerDay
             ELSE FallbackOffset

(* The date string of dateValue under `offset`: the UTC day of the instant *)
thingsScheduleDateToString(dateValue, offset) ==
    IF dateValue = NULL THEN NULL
    ELSE (dateValue + offset) \div SecondsPerDay

----------------------------------------------------------------------------
(* Relation fetchers *)

(* The titles of the tags of a task (an array in no stated order) *)
getTagsForTask(taskUuid) ==
    {tmTag[p[2]] : p \in {q \in tmTaskTag : q[1] = taskUuid /\ q[2] \in DOMAIN tmTag}}

(* The checklist of a task, ORDER BY "index" ASC; the store keeps the      *)
(* indexes of one task's items distinct.                                   *)
getChecklistForTask(taskUuid) ==
    LET items == {c \in tmChecklistItem : c.task = taskUuid}
        ids == {c.uuid : c \in items}
        item(id) == CHOOSE c \in items : c.uuid = id
        order == CHOOSE s \in AscOrders([id \in ids |-> item(id).index]) : TRUE
    IN  [i \in 1..Len(order) |->
            [uuid |-> order[i],
             title |-> item(order[i]).title,
             status |-> statusToString(item(order[i]).status)]]

----------------------------------------------------------------------------
(* Recurrence blob.  A blob is NULL (absent), BlobWithoutFu (a blob in     *)
(* which the pattern <key>fu</key><integer>N</integer> is not found) or    *)
(* the number N >= 0 of the blob's fu field.                               *)

(* FREQUENCY_UNIT_MAP with the labels of 256 and 16 exchanged *)
FREQUENCY_UNIT_MAP_Exchanged(fu) ==
    CASE fu = 4 -> <<"daily">>
      [] fu = 256 -> <<"monthly">>
      [] fu = 16 -> <<"weekly">>
      [] fu = 2048 -> <<"yearly">>
      [] OTHER -> <<"every-", fu>>

FREQUENCY_UNIT_MAP(fu) ==
    CASE fu = 4 -> <<"daily">>
      [] fu = 256 -> <<"weekly">>
      [] fu = 16 -> <<"monthly">>
      [] fu = 2048 -> <<"yearly">>
      [] OTHER -> <<"every-", fu>>

parseRecurrenceRule(raw) ==
    IF raw = NULL THEN <<>>
    ELSE IF raw = BlobWithoutFu THEN <<>>
    ELSE FREQUENCY_UNIT_MAP(raw)

----------------------------------------------------------------------------
(* BASE_TASK_SELECT: the row of task t joined with its project and area *)

(* COALESCE with its arguments exchanged *)
Coalesce_SecondFirst(a, b) == IF b # NULL THEN b ELSE a

Coalesce(a, b) == IF a # NULL THEN a ELSE b

JoinedRow(t) ==
    LET hasProject == t.project # NULL /\ t.project \in DOMAIN tasks
        p == tasks[t.project]
        area == Coalesce(t.area, IF hasProject THEN p.area ELSE NULL)
    IN  [uuid |-> t.uuid,
         title |-> t.title,
         type |-> t.type,
         status |-> t.status,
         start |-> t.start,
         notes |-> t.notes,
         startDate |-> t.startDate,
         startBucket |-> t.startBucket,
         deadline |-> t.deadline,
         creationDate |-> t.creationDate,
         userModificationDate |-> t.userModificationDate,
         stopDate |-> t.stopDate,
         project |-> t.project,
         projectTitle |-> IF hasProject THEN p.title ELSE NullText,
         area |-> area,
         areaTitle |-> IF area # NULL /\ area \in DOMAIN tmArea
                       THEN tmArea[area] ELSE NullText,
         reminderTime |-> t.reminderTime,
         rt1_recurrenceRule |-> t.rt1_recurrenceRule,
         rt1_nextInstanceStartDate |-> t.rt1_nextInstanceStartDate,
         rt1_instanceCreationPaused |-> t.rt1_instanceCreationPaused]

(* Whether rowToTodo of this row calls calibrateStartDateEpoch *)
RowNeedsOffset(row) ==
    \/ row.rt1_nextInstanceStartDate # NULL
    \/ row.startDate # NULL
    \/ row.deadline # NULL

(* rowToTodo with the next occurrence as start date of every row without *)
(* a start date                                                           *)
rowToTodo_NextForAll(row, offset) ==
    LET isRecurring == row.rt1_recurrenceRule # NULL
        nextInstanceDate ==
            thingsScheduleDateToString(row.rt1_nextInstanceStartDate, offset)
        effectiveStartDate ==
            IF row.startDate # NULL
            THEN thingsScheduleDateToString(row.startDate, offset)
            ELSE nextInstanceDate
    IN  [uuid |-> row.uuid,
         title |-> TextOrEmpty(row.title),
         type |-> typeToString(row.type),
         status |-> statusToString(row.status),
         notes |-> TextOrEmpty(row.notes),
         start |-> startToString(row.start, row.startBucket, row.startDate),
         startDate |-> effectiveStartDate,
         deadline |-> thingsScheduleDateToString(row.deadline, offset),
         createdAt |-> OrEmpty(unixToISO(row.creationDate)),
         modifiedAt |-> OrEmpty(unixToISO(row.userModificationDate)),
         completedAt |-> unixToISO(row.stopDate),
         project |-> row.project,
         projectTitle |-> row.projectTitle,
         area |-> row.area,
         areaTitle |-> row.areaTitle,
         tags |-> getTagsForTask(row.uuid),
         checklist |-> getChecklistForTask(row.uuid),
         reminderTime |-> unixToISO(row.reminderTime),
         repeating |-> isRecurring,
         recurrenceRule |-> parseRecurrenceRule(row.rt1_recurrenceRule),
         nextInstanceDate |-> nextInstanceDate]

rowToTodo(row, offset) ==
    LET isRecurring == row.rt1_recurrenceRule # NULL
        nextInstanceDate ==
            thingsScheduleDateToString(row.rt1_nextInstanceStartDate, offset)
        effectiveStartDate ==
            IF row.startDate # NULL
            THEN thingsScheduleDateToString(row.startDate, offset)
            ELSE IF isRecurring THEN nextInstanceDate ELSE NULL
    IN  [uuid |-> row.uuid,
         title |-> TextOrEmpty(row.title),
         type |-> typeToString(row.type),
         status |-> statusToString(row.status),
         notes |-> TextOrEmpty(row.notes),
         start |-> startToString(row.start, row.startBucket, row.startDate),
         startDate |-> effectiveStartDate,
         deadline |-> thingsScheduleDateToString(row.deadline, offset),
         createdAt |-> OrEmpty(unixToISO(row.creationDate)),
         modifiedAt |-> OrEmpty(unixToISO(row.userModificationDate)),
         completedAt |-> unixToISO(row.stopDate),
         project |-> row.project,
         projectTitle |-> row.projectTitle,
         area |-> row.area,
         areaTitle |-> row.areaTitle,
         tags |-> getTagsForTask(row.uuid),
         checklist |-> getChecklistForTask(row.uuid),
         reminderTime |-> unixToISO(row.reminderTime),
         repeating |-> isRecurring,
         recurrenceRule |-> parseRecurrenceRule(row.rt1_recurrenceRule),
         nextInstanceDate |-> nextInstanceDate]

----------------------------------------------------------------------------
(* List query engine.  A query operator gives the set of row sequences     *)
(* (as uuid sequences) the statement may return: one per order that its    *)
(* ORDER BY leaves open.                                                   *)

Select(P(_)) == {u \in DOMAIN tasks : P(tasks[u])}

KeyOf(S, f(_)) == [u \in S |-> f(tasks[u])]

(* Without ORDER BY the rows come in any order *)
AnyOrders(S) == AscOrders([u \in S |-> 0])

IsOpenTodo(t) ==
    /\ SqlEq(t.type, TYPE_TODO)
    /\ SqlEq(t.status, STATUS_INCOMPLETE)
    /\ SqlEq(t.trashed, 0)

InboxWhere(t) ==
    /\ IsOpenTodo(t)
    /\ SqlEq(t.start, 0)
    /\ t.startDate = NULL
    /\ SqlEq(t.startBucket, 0)
    /\ t.project = NULL
    /\ t.heading = NULL

(* TodayWhere without the trashed test *)
TodayWhere_NoTrashFilter(t) ==
    /\ SqlEq(t.type, TYPE_TODO)
    /\ SqlEq(t.status, STATUS_INCOMPLETE)
    /\ SqlEq(t.start, 1)
    /\ t.startDate # NULL

TodayWhere(t) ==
    /\ IsOpenTodo(t)
    /\ SqlEq(t.start, 1)
    /\ t.startDate # NULL

(* RecurringTodayWhere with the end of the window included *)
RecurringTodayWhere_EndIncluded(t, todayStart, todayEnd) ==
    /\ IsOpenTodo(t)
    /\ t.rt1_recurrenceRule # NULL
    /\ SqlEq(t.rt1_instanceCreationPaused, 0)
    /\ SqlGe(t.rt1_nextInstanceStartDate, todayStart)
    /\ SqlGe(todayEnd, t.rt1_nextInstanceStartDate)

(* RecurringTodayWhere without the condition on the paused flag *)
RecurringTodayWhere_PausedToo(t, todayStart, todayEnd) ==
    /\ IsOpenTodo(t)
    /\ t.rt1_recurrenceRule # NULL
    /\ SqlGe(t.rt1_nextInstanceStartDate, todayStart)
    /\ SqlLt(t.rt1_nextInstanceStartDate, todayEnd)

RecurringTodayWhere(t, todayStart, todayEnd) ==
    /\ IsOpenTodo(t)
    /\ t.rt1_recurrenceRule # NULL
    /\ SqlEq(t.rt1_instanceCreationPaused, 0)
    /\ SqlGe(t.rt1_nextInstanceStartDate, todayStart)
    /\ SqlLt(t.rt1_nextInstanceStartDate, todayEnd)

UpcomingWhere(t) ==
    /\ IsOpenTodo(t)
    /\ SqlEq(t.start, 1)
    /\ t.startDate # NULL
    /\ SqlEq(t.startBucket, 0)

RecurringUpcomingWhere(t, todayThingsValue) ==
    /\ IsOpenTodo(t)
    /\ t.rt1_recurrenceRule # NULL
    /\ SqlEq(t.rt1_instanceCreationPaused, 0)
    /\ t.rt1_nextInstanceStartDate # NULL
    /\ SqlGt(t.rt1_nextInstanceStartDate, todayThingsValue)

AnytimeWhere(t) ==
    /\ IsOpenTodo(t)
    /\ SqlEq(t.start, 1)
    /\ SqlEq(t.startBucket, START_BUCKET_ANYTIME)

SomedayWhere(t) ==
    /\ IsOpenTodo(t)
    /\ SqlEq(t.start, 2)

LogbookWhere(t) ==
    /\ SqlEq(t.type, TYPE_TODO)
    /\ t.status \in {STATUS_COMPLETED, STATUS_CANCELED}
    /\ SqlEq(t.trashed, 0)

(* today's value in the store's encoding *)
TodayThingsValue(clock, offset) == todayMidnightUnix(clock) - offset

(* TodayRows with ORDER BY t.todayIndex DESC *)
TodayRows_Descending == DescOrders(KeyOf(Select(TodayWhere), LAMBDA t : t.todayIndex))

TodayRows == AscOrders(KeyOf(Select(TodayWhere), LAMBDA t : t.todayIndex))

RecurringTodayRows(todayThingsValue) ==
    LET todayStart == todayThingsValue - SecondsPerDay
        todayEnd == todayThingsValue + SecondsPerDay
    IN  AscOrders(KeyOf(Select(LAMBDA t : RecurringTodayWhere(t, todayStart, todayEnd)),
                        LAMBDA t : t.rt1_nextInstanceStartDate))

(* TodayCombined without the filter *)
TodayCombined_NoDedup(todayRows, recurringTodayRows) ==
    todayRows \o recurringTodayRows

(* [...todayRows, ...recurringTodayRows.filter(r => !seenUuids.has(r.uuid))] *)
TodayCombined(todayRows, recurringTodayRows) ==
    todayRows \o SelectSeq(recurringTodayRows, LAMBDA u : u \notin Range(todayRows))

RegularRows == AscOrders(KeyOf(Select(UpcomingWhere), LAMBDA t : t.startDate))

RecurringRows(todayThingsValue) ==
    AscOrders(KeyOf(Select(LAMBDA t : RecurringUpcomingWhere(t, todayThingsValue)),
                    LAMBDA t : t.rt1_nextInstanceStartDate))

(* The loop that keeps the first row of each uuid *)
RECURSIVE DedupByUuid(_)
DedupByUuid(s) ==
    IF s = <<>> THEN <<>>
    ELSE LET front == DedupByUuid(SubSeq(s, 1, Len(s) - 1))
             row == s[Len(s)]
         IN  IF row \in Range(front) THEN front ELSE Append(front, row)

(* The sort key of the upcoming view *)
UpcomingSortDate(t) ==
    IF t.rt1_recurrenceRule # NULL
    THEN (IF t.rt1_nextInstanceStartDate # NULL
          THEN t.rt1_nextInstanceStartDate ELSE Infinity)
    ELSE (IF t.startDate # NULL THEN t.startDate ELSE Infinity)

(* Array.prototype.sort with (a, b) => dateA - dateB: a stable sort; two   *)
(* rows of key Infinity compare NaN, which sort takes as equal.            *)
RECURSIVE StableSortByDate(_)
StableSortByDate(s) ==
    IF s = <<>> THEN <<>>
    ELSE LET front == StableSortByDate(SubSeq(s, 1, Len(s) - 1))
             row == s[Len(s)]
             n == Cardinality({i \in DOMAIN front :
                     UpcomingSortDate(tasks[front[i]]) <= UpcomingSortDate(tasks[row])})
         IN  SubSeq(front, 1, n) \o <<row>> \o SubSeq(front, n + 1, Len(front))

UpcomingAllRows(regularRows, recurringRows) ==
    StableSortByDate(DedupByUuid(regularRows \o recurringRows))

(* ListRows with the inbox view as its default branch *)
ListRows_DefaultInbox(list, clock, offset) ==
    CASE list = "inbox" -> AnyOrders(Select(InboxWhere))
      [] list = "today" ->
            {TodayCombined(a, b) :
                a \in TodayRows,
                b \in RecurringTodayRows(TodayThingsValue(clock, offset))}
      [] list = "upcoming" ->
            {UpcomingAllRows(a, b) :
                a \in RegularRows,
                b \in RecurringRows(TodayThingsValue(clock, offset))}
      [] list = "anytime" ->
            AscOrders(KeyOf(Select(AnytimeWhere), LAMBDA t : t.todayIndex))
      [] list = "someday" ->
            DescOrders(KeyOf(Select(SomedayWhere), LAMBDA t : t.creationDate))
      [] list = "logbook" ->
            {Limit(s, LogbookLimit) :
                s \in DescOrders(KeyOf(Select(LogbookWhere), LAMBDA t : t.stopDate))}
      [] OTHER -> AnyOrders(Select(InboxWhere))

(* The row sequences getTodosByList(list) may map to to-dos *)
ListRows(list, clock, offset) ==
    CASE list = "inbox" -> AnyOrders(Select(InboxWhere))
      [] list = "today" ->
            {TodayCombined(a, b) :
                a \in TodayRows,
                b \in RecurringTodayRows(TodayThingsValue(clock, offset))}
      [] list = "upcoming" ->
            {UpcomingAllRows(a, b) :
                a \in RegularRows,
                b \in RecurringRows(TodayThingsValue(clock, offset))}
      [] list = "anytime" ->
            AscOrders(KeyOf(Select(AnytimeWhere), LAMBDA t : t.todayIndex))
      [] list = "someday" ->
            DescOrders(KeyOf(Select(SomedayWhere), LAMBDA t : t.creationDate))
      [] list = "logbook" ->
            {Limit(s, LogbookLimit) :
                s \in DescOrders(KeyOf(Select(LogbookWhere), LAMBDA t : t.stopDate))}
      [] OTHER -> {<<>>}

(* Whether getTodosByList(list) calibrates before it maps its rows *)
ListCalibratesFirst(list) == list \in {"today", "upcoming"}

(* rows.map(rowToTodo) *)
Todos(rows, offset) ==
    [i \in 1..Len(rows) |-> rowToTodo(JoinedRow(tasks[rows[i]]), offset)]

(* Whether mapping these rows calls calibrateStartDateEpoch *)
RowsNeedOffset(rows) ==
    \E i \in DOMAIN rows : RowNeedsOffset(JoinedRow(tasks[rows[i]]))

----------------------------------------------------------------------------
(* Texts: LIKE and ORDER BY title *)

(* ASCII case folding, as LIKE does it (the letters of the model) *)
Lower(c) ==
    CASE c = "A" -> "a"
      [] c = "B" -> "b"
      [] OTHER -> c

(* text LIKE pattern: % matches any run of characters, _ any one character *)
RECURSIVE Like(_, _)
Like(text, pattern) ==
    IF pattern = <<>> THEN text = <<>>
    ELSE IF Head(pattern) = "%"
         THEN Like(text, Tail(pattern)) \/ (text # <<>> /\ Like(Tail(text), pattern))
         ELSE /\ text # <<>>
              /\ (Head(pattern) = "_" \/ Lower(Head(pattern)) = Lower(Head(text)))
              /\ Like(Tail(text), Tail(pattern))

SqlLike(text, pattern) == text # NullText /\ Like(text, pattern)

(* The code points of the model's characters *)
CharCode(c) ==
    CASE c = "%" -> 37
      [] c = "A" -> 65
      [] c = "B" -> 66
      [] c = "_" -> 95
      [] c = "a" -> 97
      [] c = "b" -> 98
      [] OTHER -> 120

(* A number that orders texts of at most three characters as BINARY does *)
RECURSIVE TextKeyFrom(_, _)
TextKeyFrom(t, places) ==
    IF places = 0 THEN 0
    ELSE IF t = <<>> THEN 0
    ELSE CharCode(Head(t)) * (128 ^ (places - 1)) + TextKeyFrom(Tail(t), places - 1)

TextKey(t) == IF t = NullText THEN NULL ELSE TextKeyFrom(t, 3)

----------------------------------------------------------------------------
(* The other queries *)

(* getTodoByUuid: the row found, as a set of at most one uuid *)
(* TodoByUuidRow without the kind condition *)
TodoByUuidRow_AnyKind(uuid) ==
    {u \in DOMAIN tasks : u = uuid}

TodoByUuidRow(uuid) ==
    {u \in DOMAIN tasks : u = uuid /\ SqlEq(tasks[u].type, TYPE_TODO)}

SearchWhere(t, pattern) ==
    /\ SqlEq(t.type, TYPE_TODO)
    /\ SqlEq(t.trashed, 0)
    /\ (SqlLike(t.title, pattern) \/ SqlLike(t.notes, pattern))

SearchRows(query) ==
    LET pattern == <<"%">> \o query \o <<"%">>
    IN  {Limit(s, SearchLimit) :
            s \in DescOrders(KeyOf(Select(LAMBDA t : SearchWhere(t, pattern)),
                                   LAMBDA t : t.userModificationDate))}

(* SELECT COUNT( * ) FROM TMTask sub WHERE sub.project = t.uuid ... *)
TodoCount(uuid) ==
    Cardinality({u \in DOMAIN tasks :
        /\ SqlEq(tasks[u].project, uuid)
        /\ SqlEq(tasks[u].type, TYPE_TODO)
        /\ SqlEq(tasks[u].trashed, 0)})

ProjectsWhere(t) ==
    /\ SqlEq(t.type, TYPE_PROJECT)
    /\ SqlEq(t.trashed, 0)
    /\ SqlEq(t.status, STATUS_INCOMPLETE)

ProjectRows == AscOrders(KeyOf(Select(ProjectsWhere), LAMBDA t : TextKey(t.title)))

ProjectByUuidRow(uuid) ==
    {u \in DOMAIN tasks : u = uuid /\ SqlEq(tasks[u].type, TYPE_PROJECT)}

(* ProjectTodosWhere with the completed and canceled children left out *)
ProjectTodosWhere_OpenOnly(t, uuid) ==
    /\ SqlEq(t.project, uuid)
    /\ SqlEq(t.type, TYPE_TODO)
    /\ SqlEq(t.trashed, 0)
    /\ SqlEq(t.status, STATUS_INCOMPLETE)

ProjectTodosWhere(t, uuid) ==
    /\ SqlEq(t.project, uuid)
    /\ SqlEq(t.type, TYPE_TODO)
    /\ SqlEq(t.trashed, 0)

ProjectTodoRows(uuid) ==
    AscOrders(KeyOf(Select(LAMBDA t : ProjectTodosWhere(t, uuid)), LAMBDA t : t.index))

(* Whether mapping a project row calls calibrateStartDateEpoch *)
ProjectNeedsOffset(t) == t.startDate # NULL \/ t.deadline # NULL

(* The row-to-project mapping of getProjects and getProjectByUuid *)
rowToProject(t, offset) ==
    [uuid |-> t.uuid,
     title |-> TextOrEmpty(t.title),
     status |-> statusToString(t.status),
     notes |-> TextOrEmpty(t.notes),
     start |-> startToString(t.start, t.startBucket, t.startDate),
     startDate |-> thingsScheduleDateToString(t.startDate, offset),
     deadline |-> thingsScheduleDateToString(t.deadline, offset),
     createdAt |-> OrEmpty(unixToISO(t.creationDate)),
     modifiedAt |-> OrEmpty(unixToISO(t.userModificationDate)),
     completedAt |-> unixToISO(t.stopDate),
     area |-> t.area,
     areaTitle |-> IF t.area # NULL /\ t.area \in DOMAIN tmArea
                   THEN tmArea[t.area] ELSE NullText,
     tags |-> getTagsForTask(t.uuid),
     todoCount |-> TodoCount(t.uuid)]

(* getTodosByTag: one row per (task, tag) link whose tag has the title *)
TagLinks(tagName) ==
    {q \in tmTaskTag :
        /\ q[1] \in DOMAIN tasks
        /\ q[2] \in DOMAIN tmTag
        /\ tmTag[q[2]] = tagName
        /\ IsOpenTodo(tasks[q[1]])}

TagRows(tagName) ==
    LET links == TagLinks(tagName)
        orders == DescOrders([q \in links |-> tasks[q[1]].userModificationDate])
    IN  {[i \in 1..Len(s) |-> s[i][1]] : s \in orders}

----------------------------------------------------------------------------
(* Request handlers.  Each is one action: the queries it runs, the         *)
(* calibration it triggers, and the answer it gives.                       *)

VALID_LISTS == {"inbox", "today", "upcoming", "anytime", "someday", "logbook"}

NoResponse == [route |-> "none"]

NoRequest == [method |-> "none"]

(* The offset in use after a handler that calls calibrateStartDateEpoch    *)
(* (needs) or does not                                                     *)
OffsetAfter(needs) ==
    IF needs THEN calibrateStartDateEpoch(startDateEpochOffset, tasks, now)
    ELSE startDateEpochOffset

(* The handler's effect on the calibration cache *)
Calibration(needs) ==
    /\ startDateEpochOffset' = OffsetAfter(needs)
    /\ calibrationQueries' =
           IF needs /\ startDateEpochOffset = NULL
           THEN calibrationQueries + 1 ELSE calibrationQueries

(* A connection as new Database(config.dbPath, { readonly: true }) makes   *)
(* it                                                                      *)
NewConnection == [readonly |-> TRUE, open |-> TRUE]

(* getDb() with the module variable d and the connections conns: the       *)
(* module variable and the connections after the call; the connection      *)
(* returned is the module variable after the call                          *)
getDb_AlwaysOpens(d, conns) ==
    [db |-> Len(conns) + 1, connections |-> Append(conns, NewConnection)]

getDb(d, conns) ==
    IF d = NULL
    THEN [db |-> Len(conns) + 1, connections |-> Append(conns, NewConnection)]
    ELSE [db |-> d, connections |-> conns]

(* The handler's effect on the connection: its queries call getDb()        *)
(* (called) or it runs no query                                            *)
Connection(called) ==
    LET after == IF called THEN getDb(db, connections)
                 ELSE [db |-> db, connections |-> connections]
    IN  /\ db' = after.db
        /\ connections' = after.connections

(* closeDb(), called by itself: no route calls it, the server's signal     *)
(* handlers call it before the process exits                               *)
closeDb ==
    /\ IF db # NULL
       THEN /\ connections' = [connections EXCEPT ![db].open = FALSE]
            /\ db' = NULL
       ELSE UNCHANGED <<db, connections>>
    /\ UNCHANGED <<store, now, startDateEpochOffset, calibrationQueries,
                   response, request, scripts>>

(* GET /v1/todos?list=... *)
handleGetTodos(list) ==
    /\ IF list \notin VALID_LISTS
       THEN /\ response' = [route |-> "GET /v1/todos", arg |-> list, status |-> 400]
            /\ Calibration(FALSE)
       ELSE \E rows \in ListRows(list, now, OffsetAfter(ListCalibratesFirst(list))) :
               LET needs == ListCalibratesFirst(list) \/ RowsNeedOffset(rows)
               IN  /\ response' = [route |-> "GET /v1/todos", arg |-> list,
                                   status |-> 200,
                                   data |-> Todos(rows, OffsetAfter(needs))]
                   /\ Calibration(needs)
    /\ Connection(list \in VALID_LISTS)
    /\ scripts' = <<>>
    /\ UNCHANGED <<store, now, request>>

(* GET /v1/todos/search?q=... *)
handleSearchTodos(query) ==
    /\ IF query = <<>>
       THEN /\ response' = [route |-> "GET /v1/todos/search", arg |-> query,
                            status |-> 400]
            /\ Calibration(FALSE)
       ELSE \E rows \in SearchRows(query) :
               LET needs == RowsNeedOffset(rows)
               IN  /\ response' = [route |-> "GET /v1/todos/search", arg |-> query,
                                   status |-> 200,
                                   data |-> Todos(rows, OffsetAfter(needs))]
                   /\ Calibration(needs)
    /\ Connection(query # <<>>)
    /\ scripts' = <<>>
    /\ UNCHANGED <<store, now, request>>

(* GET /v1/todos/:uuid *)
handleGetTodo(uuid) ==
    /\ IF TodoByUuidRow(uuid) = {}
       THEN /\ response' = [route |-> "GET /v1/todos/:uuid", arg |-> uuid,
                            status |-> 404]
            /\ Calibration(FALSE)
       ELSE LET needs == RowsNeedOffset(<<uuid>>)
            IN  /\ response' = [route |-> "GET /v1/todos/:uuid", arg |-> uuid,
                                status |-> 200,
                                data |-> Todos(<<uuid>>, OffsetAfter(needs))]
                /\ Calibration(needs)
    /\ Connection(TRUE)
    /\ scripts' = <<>>
    /\ UNCHANGED <<store, now, request>>

(* GET /v1/projects *)
handleGetProjects ==
    /\ \E rows \in ProjectRows :
          LET needs == \E i \in DOMAIN rows : ProjectNeedsOffset(tasks[rows[i]])
          IN  /\ response' = [route |-> "GET /v1/projects", arg |-> NULL,
                              status |-> 200,
                              data |-> [i \in 1..Len(rows) |->
                                          rowToProject(tasks[rows[i]], OffsetAfter(needs))]]
              /\ Calibration(needs)
    /\ Connection(TRUE)
    /\ scripts' = <<>>
    /\ UNCHANGED <<store, now, request>>

(* GET /v1/projects/:uuid *)
handleGetProject(uuid) ==
    /\ IF ProjectByUuidRow(uuid) = {}
       THEN /\ response' = [route |-> "GET /v1/projects/:uuid", arg |-> uuid,
                            status |-> 404]
            /\ Calibration(FALSE)
       ELSE \E rows \in ProjectTodoRows(uuid) :
               LET needs == ProjectNeedsOffset(tasks[uuid]) \/ RowsNeedOffset(rows)
               IN  /\ response' = [route |-> "GET /v1/projects/:uuid", arg |-> uuid,
                                   status |-> 200,
                                   data |-> <<rowToProject(tasks[uuid], OffsetAfter(needs))>>,
                                   todos |-> Todos(rows, OffsetAfter(needs))]
                   /\ Calibration(needs)
    /\ Connection(TRUE)
    /\ scripts' = <<>>
    /\ UNCHANGED <<store, now, request>>

(* GET /v1/tags/:name/todos *)
handleGetTodosByTag(tagName) ==
    /\ \E rows \in TagRows(tagName) :
          LET needs == RowsNeedOffset(rows)
          IN  /\ response' = [route |-> "GET /v1/tags/:name/todos", arg |-> tagName,
                              status |-> 200,
                              data |-> Todos(rows, OffsetAfter(needs))]
              /\ Calibration(needs)
    /\ Connection(TRUE)
    /\ scripts' = <<>>
    /\ UNCHANGED <<store, now, request>>

(* getTodosByList(list) called by itself, the caller left with the to-dos  *)
getTodosByList(list) ==
    /\ \E rows \in ListRows(list, now, OffsetAfter(ListCalibratesFirst(list))) :
          LET needs == ListCalibratesFirst(list) \/ RowsNeedOffset(rows)
          IN  /\ response' = [route |-> "getTodosByList", arg |-> list,
                              data |-> Todos(rows, OffsetAfter(needs))]
              /\ Calibration(needs)
    /\ Connection(TRUE)
    /\ scripts' = <<>>
    /\ UNCHANGED <<store, now, request>>

(* rowToTodo(row) called by itself on the joined row of a task, the caller *)
(* left with the to-do                                                     *)
rowToTodoCall(uuid) ==
    /\ uuid \in DOMAIN tasks
    /\ LET needs == RowsNeedOffset(<<uuid>>)
       IN  /\ response' = [route |-> "rowToTodo", arg |-> uuid,
                           data |-> Todos(<<uuid>>, OffsetAfter(needs))]
           /\ Calibration(needs)
    /\ Connection(TRUE)
    /\ scripts' = <<>>
    /\ UNCHANGED <<store, now, request>>

----------------------------------------------------------------------------
(* The AppleScript executor and the write routes.  A word (a title, a      *)
(* list name, a date) is a string; an absent field of a JSON body is       *)
(* UNDEFINED, an absent array NoList.  A script is recorded by what it     *)
(* tells Things to do: kind, the to-do it addresses (by title `todo` or by *)
(* `id`), the place and name of its location or its argument, the          *)
(* properties it sets, and whether osascript exited with 0 (ok).  The      *)
(* handlers are async: each await of a script delays only the answer, so   *)
(* a handler is one action that draws the outcome of each script it runs.  *)
(* What Things then writes to the store is the store's own step.           *)

UNDEFINED == "<undefined>"

NoList == <<UNDEFINED>>

(* !x of a word *)
Falsy(x) == x \in {UNDEFINED, ""}

(* A word with a double quote in it *)
Quoted == "5\" nails"

(* escapeAS over the words of the model: a backslash before every double   *)
(* quote and every backslash                                               *)
escapeAS(str) == IF str = Quoted THEN "5\\\" nails" ELSE str

(* String.prototype.toLowerCase over the words of the model *)
toLowerCase(str) ==
    CASE str = "Today" -> "today"
      [] str = "Inbox" -> "inbox"
      [] str = "Shopping" -> "shopping"
      [] OTHER -> str

(* String.prototype.trim over the words of the model *)
trim(str) == IF str = " Buy milk" THEN "Buy milk" ELSE str

builtInLists ==
    [inbox |-> "Inbox", today |-> "Today", anytime |-> "Anytime",
     someday |-> "Someday", upcoming |-> "Upcoming"]

Script(kind, todo, id, place, name, props, ok) ==
    [kind |-> kind, todo |-> todo, id |-> id, place |-> place, name |-> name,
     props |-> props, ok |-> ok]

(* The location clause of the make script of createTodo *)
Location(req) ==
    IF ~Falsy(req.when) /\ toLowerCase(req.when) \in DOMAIN builtInLists
    THEN [place |-> "list", name |-> builtInLists[toLowerCase(req.when)]]
    ELSE IF ~Falsy(req.list)
    THEN IF toLowerCase(req.list) \in DOMAIN builtInLists
         THEN [place |-> "list", name |-> builtInLists[toLowerCase(req.list)]]
         ELSE [place |-> "project", name |-> escapeAS(req.list)]
    ELSE [place |-> "", name |-> ""]

(* The most scripts one request runs *)
MaxScripts == 3

Outcomes == [1..MaxScripts -> BOOLEAN]

(* createTodo(req) when the k-th script it runs exits as ok[k] says: the   *)
(* scripts run, whether the promise resolves, and the value it resolves to *)
createTodo_FollowUpRejects(req, ok) ==
    LET props == {"name"}
                 \cup (IF ~Falsy(req.notes) THEN {"notes"} ELSE {})
                 \cup (IF ~Falsy(req.deadline) THEN {"due date"} ELSE {})
                 \cup (IF req.tags # NoList /\ Len(req.tags) > 0
                       THEN {"tag names"} ELSE {})
        location == Location(req)
        make == Script("make", escapeAS(req.title), NULL, location.place,
                       location.name, props, ok[1])
        schedule ==
            IF ~Falsy(req.when)
               /\ req.when \notin {"today", "tomorrow", "evening", "anytime", "someday"}
            THEN <<Script("schedule", escapeAS(req.title), NULL, "date",
                          escapeAS(req.when), {}, ok[2])>>
            ELSE IF req.when = "tomorrow"
            THEN <<Script("scheduleTomorrow", escapeAS(req.title), NULL, "", "",
                          {}, ok[2])>>
            ELSE <<>>
        notes ==
            IF req.checklist # NoList /\ Len(req.checklist) > 0
            THEN <<Script("appendNotes", escapeAS(req.title), NULL, "", "",
                          {"notes"}, ok[Len(schedule) + 2])>>
            ELSE <<>>
        followUps == schedule \o notes
    IN  IF ~ok[1]
        THEN [scripts |-> <<make>>, resolved |-> FALSE, result |-> ""]
        ELSE [scripts |-> <<make>> \o followUps,
              resolved |-> \A k \in DOMAIN followUps : followUps[k].ok,
              result |-> trim(req.title)]

createTodo(req, ok) ==
    LET props == {"name"}
                 \cup (IF ~Falsy(req.notes) THEN {"notes"} ELSE {})
                 \cup (IF ~Falsy(req.deadline) THEN {"due date"} ELSE {})
                 \cup (IF req.tags # NoList /\ Len(req.tags) > 0
                       THEN {"tag names"} ELSE {})
        location == Location(req)
        make == Script("make", escapeAS(req.title), NULL, location.place,
                       location.name, props, ok[1])
        schedule ==
            IF ~Falsy(req.when)
               /\ req.when \notin {"today", "tomorrow", "evening", "anytime", "someday"}
            THEN <<Script("schedule", escapeAS(req.title), NULL, "date",
                          escapeAS(req.when), {}, ok[2])>>
            ELSE IF req.when = "tomorrow"
            THEN <<Script("scheduleTomorrow", escapeAS(req.title), NULL, "", "",
                          {}, ok[2])>>
            ELSE <<>>
        notes ==
            IF req.checklist # NoList /\ Len(req.checklist) > 0
            THEN <<Script("appendNotes", escapeAS(req.title), NULL, "", "",
                          {"notes"}, ok[Len(schedule) + 2])>>
            ELSE <<>>
    IN  IF ~ok[1]
        THEN [scripts |-> <<make>>, resolved |-> FALSE, result |-> ""]
        ELSE [scripts |-> <<make>> \o schedule \o notes,
              resolved |-> TRUE,
              result |-> trim(req.title)]

(* completeTodo, cancelTodo, deleteTodo: one script on the to-do with the  *)
(* id                                                                      *)
completeTodo(identifier, ok) ==
    LET script == Script("complete", "", identifier, "", "", {"status"}, ok[1])
    IN  [scripts |-> <<script>>, resolved |-> ok[1]]

cancelTodo(identifier, ok) ==
    LET script == Script("cancel", "", identifier, "", "", {"status"}, ok[1])
    IN  [scripts |-> <<script>>, resolved |-> ok[1]]

deleteTodo(identifier, ok) ==
    LET script == Script("move", "", identifier, "list", "Trash", {}, ok[1])
    IN  [scripts |-> <<script>>, resolved |-> ok[1]]

(* updateTodo with the failure of the move swallowed *)
updateTodo_MoveFailureIgnored(uuid, req, ok) ==
    LET props == (IF ~Falsy(req.title) THEN {"name"} ELSE {})
                 \cup (IF req.notes # UNDEFINED THEN {"notes"} ELSE {})
                 \cup (IF req.tags # NoList THEN {"tag names"} ELSE {})
                 \cup (IF ~Falsy(req.deadline) THEN {"due date"} ELSE {})
        update == Script("update", "", uuid, "", "", props, ok[1])
        list == CASE req.when = "today" -> "Today"
                  [] req.when = "someday" -> "Someday"
                  [] req.when = "anytime" -> "Anytime"
                  [] OTHER -> ""
        move == IF list # "" THEN <<Script("move", "", uuid, "list", list, {}, ok[2])>>
                ELSE <<>>
    IN  IF ~ok[1]
        THEN [scripts |-> <<update>>, resolved |-> FALSE]
        ELSE [scripts |-> <<update>> \o move, resolved |-> TRUE]

(* updateTodo: the script of the property commands, then the move to a     *)
(* built-in list when `when` is today, someday or anytime                  *)
updateTodo(uuid, req, ok) ==
    LET props == (IF ~Falsy(req.title) THEN {"name"} ELSE {})
                 \cup (IF req.notes # UNDEFINED THEN {"notes"} ELSE {})
                 \cup (IF req.tags # NoList THEN {"tag names"} ELSE {})
                 \cup (IF ~Falsy(req.deadline) THEN {"due date"} ELSE {})
        update == Script("update", "", uuid, "", "", props, ok[1])
        list == CASE req.when = "today" -> "Today"
                  [] req.when = "someday" -> "Someday"
                  [] req.when = "anytime" -> "Anytime"
                  [] OTHER -> ""
        move == IF list # "" THEN <<Script("move", "", uuid, "list", list, {}, ok[2])>>
                ELSE <<>>
    IN  IF ~ok[1]
        THEN [scripts |-> <<update>>, resolved |-> FALSE]
        ELSE [scripts |-> <<update>> \o move,
              resolved |-> \A k \in DOMAIN move : move[k].ok]

(* A handler that runs no query *)
NoQuery ==
    /\ Calibration(FALSE)
    /\ Connection(FALSE)

(* The const existing = getTodoByUuid(uuid) of a write handler: its effect *)
(* on the calibration cache and on the connection                          *)
Lookup(uuid) ==
    /\ Calibration(TodoByUuidRow(uuid) # {} /\ RowsNeedOffset(<<uuid>>))
    /\ Connection(TRUE)

(* POST /v1/todos; body.json says whether request.json() parsed the body *)
handleCreateTodo(body) ==
    /\ IF ~body.json \/ Falsy(body.title)
       THEN /\ response' = [route |-> "POST /v1/todos", arg |-> body, status |-> 400]
            /\ scripts' = <<>>
       ELSE \E ok \in Outcomes :
               LET created == createTodo(body, ok)
               IN  /\ scripts' = created.scripts
                   /\ response' =
                          IF created.resolved
                          THEN [route |-> "POST /v1/todos", arg |-> body,
                                status |-> 201, title |-> created.result]
                          ELSE [route |-> "POST /v1/todos", arg |-> body,
                                status |-> 500]
    /\ NoQuery
    /\ UNCHANGED <<store, now, request>>

(* PATCH /v1/todos/:uuid *)
handleUpdateTodo(uuid, body) ==
    /\ IF ~body.json
       THEN /\ response' = [route |-> "PATCH /v1/todos/:uuid", arg |-> uuid,
                            status |-> 400]
            /\ scripts' = <<>>
            /\ NoQuery
       ELSE IF TodoByUuidRow(uuid) = {}
       THEN /\ response' = [route |-> "PATCH /v1/todos/:uuid", arg |-> uuid,
                            status |-> 404]
            /\ scripts' = <<>>
            /\ Lookup(uuid)
       ELSE \E ok \in Outcomes :
               LET updated == updateTodo(uuid, body, ok)
               IN  /\ scripts' = updated.scripts
                   /\ response' = [route |-> "PATCH /v1/todos/:uuid", arg |-> uuid,
                                   status |-> IF updated.resolved THEN 200 ELSE 500]
                   /\ Lookup(uuid)
    /\ UNCHANGED <<store, now, request>>

(* The handlers of one script: the lookup, then operation(uuid, ok) *)
LookupThenScript(route, uuid, operation(_, _)) ==
    /\ IF TodoByUuidRow(uuid) = {}
       THEN /\ response' = [route |-> route, arg |-> uuid, status |-> 404]
            /\ scripts' = <<>>
       ELSE \E ok \in Outcomes :
               LET done == operation(uuid, ok)
               IN  /\ scripts' = done.scripts
                   /\ response' = [route |-> route, arg |-> uuid,
                                   status |-> IF done.resolved THEN 200 ELSE 500]
    /\ Lookup(uuid)
    /\ UNCHANGED <<store, now, request>>

(* POST /v1/todos/:uuid/complete *)
handleCompleteTodo(uuid) ==
    LookupThenScript("POST /v1/todos/:uuid/complete", uuid, completeTodo)

(* POST /v1/todos/:uuid/cancel *)
handleCancelTodo(uuid) ==
    LookupThenScript("POST /v1/todos/:uuid/cancel", uuid, cancelTodo)

(* DELETE /v1/todos/:uuid *)
handleDeleteTodo(uuid) ==
    LookupThenScript("DELETE /v1/todos/:uuid", uuid, deleteTodo)

----------------------------------------------------------------------------
(* The router.  A request is [method, pathname, list, uuid, text, header]: *)
(* pathname is the route pattern the path matches; list, uuid and text are *)
(* the list parameter, the :uuid segment and the q parameter or :name      *)
(* segment; header is the Authorization header as Headers.get returns it   *)
(* (NullText when the request has none).                                   *)

(* config.token; validateConfig ends the process at startup when it is     *)
(* empty                                                                   *)
ConfigToken == <<"t", "k">>

Whitespace == {" ", "\t"}

(* Whether w matches /Bearer/i *)
IsBearerWord(w) ==
    /\ Len(w) = 6
    /\ w[1] \in {"B", "b"}
    /\ w[2] \in {"E", "e"}
    /\ w[3] \in {"A", "a"}
    /\ w[4] \in {"R", "r"}
    /\ w[5] \in {"E", "e"}
    /\ w[6] \in {"R", "r"}

(* authHeader.replace(/^Bearer\s+/i, "") *)
StripBearer(authHeader) ==
    IF /\ Len(authHeader) >= 7
       /\ IsBearerWord(SubSeq(authHeader, 1, 6))
       /\ authHeader[7] \in Whitespace
    THEN LET rest == CHOOSE i \in 8..(Len(authHeader) + 1) :
                        /\ \A j \in 7..(i - 1) : authHeader[j] \in Whitespace
                        /\ i <= Len(authHeader) => authHeader[i] \notin Whitespace
         IN  SubSeq(authHeader, rest, Len(authHeader))
    ELSE authHeader

(* The status of the Response requireAuth returns, NULL when it returns    *)
(* null                                                                    *)
requireAuth(req, configToken) ==
    IF req.pathname \in {"/health", "/v1/capabilities"} THEN NULL
    ELSE IF configToken = <<>> THEN 500
    ELSE IF req.header = NullText \/ req.header = <<>> THEN 401
    ELSE IF StripBearer(req.header) # configToken THEN 403
    ELSE NULL

(* GET /health *)
handleHealth ==
    /\ response' = [route |-> "GET /health", status |-> 200,
                    database |-> "connected", timestamp |-> now]
    /\ Calibration(FALSE)
    /\ Connection(FALSE)
    /\ scripts' = <<>>
    /\ UNCHANGED <<store, now, request>>

(* GET /v1/capabilities *)
handleCapabilities ==
    /\ response' = [route |-> "GET /v1/capabilities", status |-> 200]
    /\ Calibration(FALSE)
    /\ Connection(FALSE)
    /\ scripts' = <<>>
    /\ UNCHANGED <<store, now, request>>

(* The 404 of the router *)
NotFound ==
    /\ response' = [route |-> "router", status |-> 404]
    /\ Calibration(FALSE)
    /\ Connection(FALSE)
    /\ scripts' = <<>>
    /\ UNCHANGED <<store, now, request>>

(* The server takes a request from the network *)
Receive(req) ==
    /\ request' = req
    /\ response' = NoResponse
    /\ UNCHANGED <<store, now, startDateEpochOffset, calibrationQueries,
                   db, connections, scripts>>

(* handleRequest of the request received *)
handleRequest ==
    /\ request # NoRequest
    /\ response = NoResponse
    /\ LET authError == requireAuth(request, ConfigToken)
           get(pathname) == request.method = "GET" /\ request.pathname = pathname
       IN  IF authError # NULL
           THEN /\ response' = [route |-> "requireAuth", status |-> authError]
                /\ Calibration(FALSE)
                /\ Connection(FALSE)
                /\ scripts' = <<>>
                /\ UNCHANGED <<store, now, request>>
           ELSE CASE get("/health") -> handleHealth
                  [] get("/v1/capabilities") -> handleCapabilities
                  [] get("/v1/todos/search") -> handleSearchTodos(request.text)
                  [] get("/v1/todos") -> handleGetTodos(request.list)
                  [] get("/v1/todos/:uuid") -> handleGetTodo(request.uuid)
                  [] get("/v1/projects") -> handleGetProjects
                  [] get("/v1/projects/:uuid") -> handleGetProject(request.uuid)
                  [] get("/v1/tags/:name/todos") -> handleGetTodosByTag(request.text)
                  [] OTHER -> NotFound

----------------------------------------------------------------------------
(* The environment: the application that owns the store, and the clock *)

(* The store's application writes (inserts or replaces) the row of a task *)
StoreWrite(row) ==
    /\ tasks' = [u \in DOMAIN tasks \cup {row.uuid} |->
                    IF u = row.uuid THEN row ELSE tasks[u]]
    /\ response' = NoResponse
    /\ scripts' = <<>>
    /\ UNCHANGED <<tmArea, tmTag, tmTaskTag, tmChecklistItem, now,
                   startDateEpochOffset, calibrationQueries, request,
                   db, connections>>

(* Time passes *)
Tick(seconds) ==
    /\ now' = now + seconds
    /\ response' = NoResponse
    /\ scripts' = <<>>
    /\ UNCHANGED <<store, startDateEpochOffset, calibrationQueries, request,
                   db, connections>>

(* A row with the commonest value in every column *)
BaseRow(uuid) ==
    [uuid |-> uuid,
     title |-> <<"a">>,
     type |-> TYPE_TODO,
     status |-> STATUS_INCOMPLETE,
     trashed |-> 0,
     start |-> 0,
     notes |-> <<>>,
     startDate |-> NULL,
     startBucket |-> START_BUCKET_ANYTIME,
     deadline |-> NULL,
     creationDate |-> 1,
     userModificationDate |-> 1,
     stopDate |-> NULL,
     project |-> NULL,
     heading |-> NULL,
     area |-> NULL,
     reminderTime |-> NULL,
     rt1_recurrenceRule |-> NULL,
     rt1_nextInstanceStartDate |-> NULL,
     rt1_instanceCreationPaused |-> 0,
     todayIndex |-> 0,
     index |-> 0]

(* r with the columns of `over` replaced *)
With(r, over) ==
    [f \in DOMAIN r |-> IF f \in DOMAIN over THEN over[f] ELSE r[f]]

(* The clock at 00:00 UTC of the day `day` days after the day whose        *)
(* midnight is FallbackOffset                                              *)
ClockAt(day) == FallbackOffset + day * SecondsPerDay

(* What every specification starts from besides its store *)
InitProcess ==
    /\ startDateEpochOffset = NULL
    /\ calibrationQueries = 0
    /\ response = NoResponse
    /\ request = NoRequest
    /\ db = NULL
    /\ connections = <<>>
    /\ scripts = <<>>

EmptyTables ==
    /\ tmArea = <<>>
    /\ tmTag = <<>>
    /\ tmTaskTag = {}
    /\ tmChecklistItem = {}

----------------------------------------------------------------------------
(* SpecBucket: one task row over every combination of the three            *)
(* scheduling columns, read through the list views and the lookup.         *)

BucketStarts == {0, 1, 2, NULL}
BucketCodes == {0, 1, NULL}
BucketDates == {NULL, SecondsPerDay}

BucketRows ==
    {With(BaseRow(1), [start |-> s, startBucket |-> b, startDate |-> d]) :
        s \in BucketStarts, b \in BucketCodes, d \in BucketDates}

InitBucket ==
    /\ \E row \in BucketRows : tasks = [u \in {1} |-> row]
    /\ EmptyTables
    /\ now = ClockAt(1)
    /\ InitProcess

NextBucket ==
    \/ \E row \in BucketRows : StoreWrite(row)
    \/ \E list \in VALID_LISTS : handleGetTodos(list)
    \/ handleGetTodo(1)

SpecBucket == InitBucket /\ [][NextBucket]_vars

----------------------------------------------------------------------------
(* SpecTrash: every store of MaxTasks rows over the row kinds that the     *)
(* views, the search, the tag and the project queries select, each kind    *)
(* trashed and not; every request is answered on every such store.         *)

MaxTasks == 2

Uuids == 1..MaxTasks

(* A uuid no row has *)
AbsentUuid == MaxTasks + 1

(* The stores that hold, for every uuid, one of the rows Rows(uuid) *)
Stores(Rows(_)) ==
    LET upTo[n \in 0..MaxTasks] ==
            IF n = 0 THEN {<<>>}
            ELSE {Append(s, r) : s \in upTo[n - 1], r \in Rows(n)}
    IN  upTo[MaxTasks]

OtherUuid(uuid) == IF uuid = 1 THEN 2 ELSE 1

(* The kinds of to-do rows: inbox, scheduled, scheduled inside a project,  *)
(* someday, logged, a template due today, a template due tomorrow (today   *)
(* is SecondsPerDay in the store's encoding at ClockAt(1))                 *)
TrashKinds(uuid) ==
    {[start |-> 0],
     [start |-> 1, startDate |-> SecondsPerDay],
     [start |-> 1, startDate |-> SecondsPerDay, project |-> OtherUuid(uuid)],
     [start |-> 2],
     [status |-> STATUS_COMPLETED, stopDate |-> 2],
     [start |-> 2, rt1_recurrenceRule |-> FuDaily,
      rt1_nextInstanceStartDate |-> SecondsPerDay],
     [start |-> 2, rt1_recurrenceRule |-> FuDaily,
      rt1_nextInstanceStartDate |-> 2 * SecondsPerDay],
     [type |-> TYPE_PROJECT, start |-> 1],
     [type |-> TYPE_PROJECT, start |-> 1, status |-> STATUS_COMPLETED, stopDate |-> 2]}

TrashRows(uuid) ==
    {With(With(BaseRow(uuid), k), [trashed |-> x]) : k \in TrashKinds(uuid), x \in {0, 1}}

(* One tag, "b", on every task *)
AllTagged ==
    /\ tmArea = <<>>
    /\ tmTag = [g \in {1} |-> <<"b">>]
    /\ tmTaskTag = {<<u, 1>> : u \in Uuids}
    /\ tmChecklistItem = {}

InitTrash ==
    /\ tasks \in Stores(TrashRows)
    /\ AllTagged
    /\ now = ClockAt(1)
    /\ InitProcess

NextTrash ==
    \/ \E list \in VALID_LISTS : handleGetTodos(list)
    \/ handleSearchTodos(<<"A">>)
    \/ \E uuid \in Uuids \cup {AbsentUuid} : handleGetTodo(uuid)
    \/ handleGetProjects
    \/ \E uuid \in Uuids \cup {AbsentUuid} : handleGetProject(uuid)
    \/ handleGetTodosByTag(<<"b">>)

SpecTrash == InitTrash /\ [][NextTrash]_vars

----------------------------------------------------------------------------
(* SpecCap: a store that grows to MaxLogged to-dos, all completed or       *)
(* canceled with distinct completion and modification times that do not    *)
(* follow the row order, except that each of the first StrayRows rows may  *)
(* be trashed or still open; the logbook and the search are answered at    *)
(* every size.                                                             *)

MaxLogged == 52
StrayRows == 2

(* Distinct times, greatest for the first odd uuid, least for the first    *)
(* even one                                                                *)
ZigZag(i) == IF i % 2 = 0 THEN i ELSE 2 * MaxLogged + 2 - i

LoggedRow(uuid) ==
    With(BaseRow(uuid),
         [status |-> IF uuid % 3 = 0 THEN STATUS_CANCELED ELSE STATUS_COMPLETED,
          start |-> 1,
          stopDate |-> ZigZag(uuid),
          userModificationDate |-> ZigZag(uuid + 1)])

CapRows(uuid) ==
    IF uuid <= StrayRows
    THEN {LoggedRow(uuid),
          With(LoggedRow(uuid), [trashed |-> 1]),
          With(LoggedRow(uuid), [status |-> STATUS_INCOMPLETE, stopDate |-> NULL])}
    ELSE {LoggedRow(uuid)}

InitCap ==
    /\ tasks = <<>>
    /\ EmptyTables
    /\ now = ClockAt(1)
    /\ InitProcess

NextCap ==
    \/ /\ Len(tasks) < MaxLogged
       /\ \E row \in CapRows(Len(tasks) + 1) : StoreWrite(row)
    \/ handleGetTodos("logbook")
    \/ handleSearchTodos(<<"a">>)

SpecCap == InitCap /\ [][NextCap]_vars

----------------------------------------------------------------------------
(* SpecRecur: every store of MaxTasks open to-dos, each concrete (a start  *)
(* flag and a start date) or not, each with or without a recurrence rule;  *)
(* the today and upcoming views are answered as the days pass.             *)

MaxDay == 2

(* Not scheduled; scheduled for day 1; for day 2; scheduled with the       *)
(* someday bucket code                                                     *)
ConcreteKinds ==
    {[start |-> 0],
     [start |-> 1, startDate |-> SecondsPerDay],
     [start |-> 1, startDate |-> 2 * SecondsPerDay],
     [start |-> 1, startDate |-> SecondsPerDay, startBucket |-> START_BUCKET_SOMEDAY]}

NextInstanceDates == {d * SecondsPerDay : d \in 1..3}

(* No rule; a rule with a next occurrence; a rule without one; a paused    *)
(* rule                                                                    *)
RecurrenceKinds ==
    {[rt1_recurrenceRule |-> NULL]}
    \cup {[rt1_recurrenceRule |-> FuDaily, rt1_nextInstanceStartDate |-> n] :
             n \in NextInstanceDates \cup {NULL}}
    \cup {[rt1_recurrenceRule |-> FuDaily,
           rt1_nextInstanceStartDate |-> 2 * SecondsPerDay,
           rt1_instanceCreationPaused |-> 1]}

(* The today ranking falls from the first row to the second *)
RecurRows(uuid) ==
    {With(With(With(BaseRow(uuid), c), r), [todayIndex |-> uuid % 2]) :
        c \in ConcreteKinds, r \in RecurrenceKinds}

InitRecur ==
    /\ tasks \in Stores(RecurRows)
    /\ EmptyTables
    /\ now = ClockAt(1)
    /\ InitProcess

NextRecur ==
    \/ now < ClockAt(MaxDay) /\ Tick(SecondsPerDay)
    \/ handleGetTodos("today")
    \/ handleGetTodos("upcoming")

SpecRecur == InitRecur /\ [][NextRecur]_vars

----------------------------------------------------------------------------
(* SpecCalib: the store is rewritten and the clock advances between the    *)
(* requests, before and after the offset is calibrated.  The clock runs    *)
(* over days on which no row of the store is scheduled, so an offset       *)
(* calibrated against a row differs from the fallback.                     *)

CalibKinds ==
    {[start |-> 1, startDate |-> NULL],
     [start |-> 1, startDate |-> SecondsPerDay],
     [start |-> 1, startDate |-> SecondsPerDay + HalfDay],
     [start |-> 1, startDate |-> 4 * SecondsPerDay],
     [start |-> 1, startDate |-> 4 * SecondsPerDay, trashed |-> 1],
     [start |-> 0, startDate |-> 4 * SecondsPerDay]}

CalibRows(uuid) == {With(BaseRow(uuid), k) : k \in CalibKinds}

InitCalib ==
    /\ tasks \in Stores(CalibRows)
    /\ EmptyTables
    /\ now = ClockAt(2)
    /\ InitProcess

NextCalib ==
    \/ \E u \in Uuids : \E row \in CalibRows(u) : StoreWrite(row)
    \/ now < ClockAt(MaxDay + 1) /\ Tick(HalfDay)
    \/ handleGetTodos("today")
    \/ handleGetTodos("anytime")
    \/ \E u \in Uuids : handleGetTodo(u)

SpecCalib == InitCalib /\ [][NextCalib]_vars

----------------------------------------------------------------------------
(* SpecEngine: getTodosByList is called with the names of the views and    *)
(* with other names, over the stores of SpecTrash.                         *)

OtherLists == {"", "Inbox", "search", "tomorrow"}

NextEngine ==
    \/ \E list \in VALID_LISTS : getTodosByList(list)
    \/ \E list \in OtherLists : getTodosByList(list)
    \/ \E list \in OtherLists : handleGetTodos(list)

SpecEngine == InitTrash /\ [][NextEngine]_vars

----------------------------------------------------------------------------
(* SpecDecode: one inbox to-do over every combination of recurrence blob,  *)
(* start date and next occurrence, rewritten between the requests.         *)

RuleBlobs == {NULL, BlobWithoutFu, 4, 256, 16, 2048, 0, 8}

DecodeRows ==
    {With(BaseRow(1), [rt1_recurrenceRule |-> r, startDate |-> d,
                       rt1_nextInstanceStartDate |-> n]) :
        r \in RuleBlobs,
        d \in {NULL, SecondsPerDay + HalfDay},
        n \in {NULL, 2 * SecondsPerDay}}

InitDecode ==
    /\ \E row \in DecodeRows : tasks = <<row>>
    /\ EmptyTables
    /\ now = ClockAt(1)
    /\ InitProcess

NextDecode ==
    \/ \E row \in DecodeRows : StoreWrite(row)
    \/ handleGetTodos("inbox")
    \/ handleGetTodo(1)

SpecDecode == InitDecode /\ [][NextDecode]_vars

----------------------------------------------------------------------------
(* SpecArea: every store of MaxTasks inbox to-dos and projects, each with  *)
(* or without an area of its own and with or without the other row as its  *)
(* project; TMArea holds the areas 1 and 2, area 3 has no row.             *)

AreaKinds(uuid) ==
    {[type |-> ty, area |-> a, project |-> p] :
        ty \in {TYPE_TODO, TYPE_PROJECT},
        a \in {NULL, 1, 2, 3},
        p \in {NULL, OtherUuid(uuid)}}

AreaRows(uuid) == {With(BaseRow(uuid), k) : k \in AreaKinds(uuid)}

InitArea ==
    /\ tasks \in Stores(AreaRows)
    /\ tmArea = <<<<"x">>, <<"y">>>>
    /\ tmTag = <<>>
    /\ tmTaskTag = {}
    /\ tmChecklistItem = {}
    /\ now = ClockAt(1)
    /\ InitProcess

NextArea ==
    \/ handleGetTodos("inbox")
    \/ \E uuid \in Uuids : handleGetTodo(uuid)
    \/ \E uuid \in Uuids : handleGetProject(uuid)

SpecArea == InitArea /\ [][NextArea]_vars

----------------------------------------------------------------------------
(* SpecAuth: requests for every route of the router, with and without an   *)
(* Authorization header, arrive over a store of a to-do and a project.     *)

Bearer == <<"B", "e", "a", "r", "e", "r">>

AuthHeaders ==
    {NullText,
     <<>>,
     Bearer \o <<" ">> \o ConfigToken,
     <<"b", "e", "a", "r", "e", "r", " ", "\t">> \o ConfigToken,
     Bearer \o <<" ", "x", "x">>,
     Bearer \o ConfigToken,
     Bearer,
     <<"B", "a", "s", "i", "c", " ">> \o ConfigToken,
     ConfigToken}

(* A request for a route; the parameters a route does not read are empty *)
Target(method, pathname, list, uuid, text) ==
    [method |-> method, pathname |-> pathname,
     list |-> list, uuid |-> uuid, text |-> text]

Targets ==
    {Target("GET", "/health", "", 0, <<>>),
     Target("POST", "/health", "", 0, <<>>),
     Target("GET", "/v1/capabilities", "", 0, <<>>),
     Target("GET", "/v1/todos", "today", 0, <<>>),
     Target("GET", "/v1/todos", "tomorrow", 0, <<>>),
     Target("GET", "/v1/todos/search", "", 0, <<"a">>),
     Target("GET", "/v1/todos/:uuid", "", 1, <<>>),
     Target("GET", "/v1/projects", "", 0, <<>>),
     Target("GET", "/v1/projects/:uuid", "", 2, <<>>),
     Target("GET", "/v1/tags/:name/todos", "", 0, <<"b">>),
     Target("GET", "/nowhere", "", 0, <<>>)}

Requests ==
    {[method |-> t.method, pathname |-> t.pathname, list |-> t.list,
      uuid |-> t.uuid, text |-> t.text, header |-> h] :
        t \in Targets, h \in AuthHeaders}

InitAuth ==
    /\ tasks = <<With(BaseRow(1), [start |-> 1, startDate |-> SecondsPerDay,
                                   project |-> 2]),
                 With(BaseRow(2), [type |-> TYPE_PROJECT, start |-> 1])>>
    /\ tmArea = <<>>
    /\ tmTag = <<<<"b">>>>
    /\ tmTaskTag = {<<1, 1>>}
    /\ tmChecklistItem = {}
    /\ now \in {ClockAt(1), ClockAt(1) + HalfDay}
    /\ InitProcess

NextAuth ==
    \/ \E req \in Requests : Receive(req)
    \/ handleRequest

SpecAuth == InitAuth /\ [][NextAuth]_vars

----------------------------------------------------------------------------
(* SpecSearch: every store of MaxTasks to-dos over a few titles, with and  *)
(* without notes, trashed or not, searched with plain queries and with     *)
(* queries that hold the characters % and _.                               *)

SearchTitles == {<<"a", "b">>, <<"A">>, <<"b">>, <<"%">>}

SearchKinds(uuid) ==
    {[title |-> t, notes |-> n, trashed |-> x, userModificationDate |-> uuid] :
        t \in SearchTitles, n \in {NullText, <<>>}, x \in {0, 1}}

SearchStoreRows(uuid) == {With(BaseRow(uuid), k) : k \in SearchKinds(uuid)}

SearchQueries == {<<"a">>, <<"B">>, <<"%">>, <<"_">>, <<"a", "_">>}

InitSearch ==
    /\ tasks \in Stores(SearchStoreRows)
    /\ EmptyTables
    /\ now = ClockAt(1)
    /\ InitProcess

NextSearch == \E query \in SearchQueries : handleSearchTodos(query)

SpecSearch == InitSearch /\ [][NextSearch]_vars

----------------------------------------------------------------------------
(* SpecCodes: one task row over the status and the kind codes the tables   *)
(* may hold (the codes the program names, others, and NULL), with one      *)
(* checklist item over the same status codes; the row is decoded by the    *)
(* lookup, by the project lookup, and by rowToTodo itself.                 *)

StatusCodes == {STATUS_INCOMPLETE, STATUS_CANCELED, STATUS_COMPLETED, 1, 7, NULL}

TypeCodes == {TYPE_TODO, TYPE_PROJECT, TYPE_HEADING, 3, NULL}

CodeRows ==
    {With(BaseRow(1), [status |-> s, type |-> t]) :
        s \in StatusCodes, t \in TypeCodes}

CodeItems ==
    {[uuid |-> 5, task |-> 1, title |-> <<"i">>, index |-> 0, status |-> s] :
        s \in StatusCodes}

InitCodes ==
    /\ \E row \in CodeRows : tasks = <<row>>
    /\ tmArea = <<>>
    /\ tmTag = <<>>
    /\ tmTaskTag = {}
    /\ \E item \in CodeItems : tmChecklistItem = {item}
    /\ now = ClockAt(1)
    /\ InitProcess

NextCodes ==
    \/ \E row \in CodeRows : StoreWrite(row)
    \/ handleGetTodo(1)
    \/ handleGetProject(1)
    \/ rowToTodoCall(1)

SpecCodes == InitCodes /\ [][NextCodes]_vars

----------------------------------------------------------------------------
(* SpecCreate: POST /v1/todos with every body over a few values of each    *)
(* field, every script succeeding or failing.                              *)

CreateWhens == {UNDEFINED, "today", "Today", "tomorrow", "evening", "2026-02-10"}

CreateLists == {UNDEFINED, "Shopping", "Inbox", Quoted}

CreateBodies ==
    {[json |-> j, title |-> t, notes |-> e, when |-> w, deadline |-> e,
      tags |-> IF e = UNDEFINED THEN NoList ELSE <<"Errands">>,
      list |-> l, checklist |-> c] :
        j \in {TRUE}, t \in {"", "Buy milk", " Buy milk"},
        e \in {UNDEFINED, "2026-02-10"}, w \in CreateWhens, l \in CreateLists,
        c \in {NoList, <<"Milk", "Eggs">>}}
    \cup {[json |-> FALSE, title |-> UNDEFINED, notes |-> UNDEFINED,
           when |-> UNDEFINED, deadline |-> UNDEFINED, tags |-> NoList,
           list |-> UNDEFINED, checklist |-> NoList]}

InitCreate ==
    /\ tasks = <<>>
    /\ EmptyTables
    /\ now = ClockAt(1)
    /\ InitProcess

NextCreate == \E body \in CreateBodies : handleCreateTodo(body)

SpecCreate == InitCreate /\ [][NextCreate]_vars

----------------------------------------------------------------------------
(* SpecWrite: the routes that change one to-do, on a store whose row 1 is  *)
(* a to-do (open, scheduled or trashed) or a project, for the uuid of the  *)
(* row and a uuid no row has, every script succeeding or failing.          *)

WriteRows ==
    {BaseRow(1),
     With(BaseRow(1), [start |-> 1, startDate |-> SecondsPerDay]),
     With(BaseRow(1), [trashed |-> 1]),
     With(BaseRow(1), [type |-> TYPE_PROJECT])}

UpdateBodies ==
    {[json |-> TRUE, title |-> t, notes |-> n, when |-> w,
      deadline |-> UNDEFINED, tags |-> g] :
        t \in {UNDEFINED, "Buy milk"}, n \in {UNDEFINED, ""},
        w \in {UNDEFINED, "today", "tomorrow"}, g \in {NoList, <<>>}}
    \cup {[json |-> FALSE, title |-> UNDEFINED, notes |-> UNDEFINED,
           when |-> UNDEFINED, deadline |-> UNDEFINED, tags |-> NoList]}

WriteUuids == {1, 2}

InitWrite ==
    /\ \E row \in WriteRows : tasks = <<row>>
    /\ EmptyTables
    /\ now = ClockAt(1)
    /\ InitProcess

NextWrite ==
    \/ \E row \in WriteRows : StoreWrite(row)
    \/ \E uuid \in WriteUuids, body \in UpdateBodies : handleUpdateTodo(uuid, body)
    \/ \E uuid \in WriteUuids : handleCompleteTodo(uuid)
    \/ \E uuid \in WriteUuids : handleCancelTodo(uuid)
    \/ \E uuid \in WriteUuids : handleDeleteTodo(uuid)

SpecWrite == InitWrite /\ [][NextWrite]_vars

----------------------------------------------------------------------------
(* SpecMembership: one task row over every combination of the three        *)
(* scheduling columns, its start date none, the first day or the second,   *)
(* read through the five views of open to-dos.                             *)

MembershipDates == {NULL, SecondsPerDay, 2 * SecondsPerDay}

MembershipRows ==
    {With(BaseRow(1), [start |-> s, startBucket |-> b, startDate |-> d]) :
        s \in BucketStarts, b \in BucketCodes, d \in MembershipDates}

OpenLists == {"inbox", "today", "upcoming", "anytime", "someday"}

InitMembership ==
    /\ \E row \in MembershipRows : tasks = <<row>>
    /\ EmptyTables
    /\ now = ClockAt(1)
    /\ InitProcess

NextMembership ==
    \/ \E row \in MembershipRows : StoreWrite(row)
    \/ \E list \in OpenLists : handleGetTodos(list)

SpecMembership == InitMembership /\ [][NextMembership]_vars

----------------------------------------------------------------------------
(* SpecProject: a project (row 1: open, completed or trashed) and two      *)
(* other rows, each a child of the project (open, completed, trashed, a    *)
(* heading), a to-do of no project, or a to-do of a project that is not in *)
(* the store.                                                              *)

ParentKinds ==
    {[type |-> TYPE_PROJECT, start |-> 1],
     [type |-> TYPE_PROJECT, start |-> 1, status |-> STATUS_COMPLETED, stopDate |-> 2],
     [type |-> TYPE_PROJECT, start |-> 1, trashed |-> 1]}

ChildKinds ==
    {[project |-> 1, start |-> 1],
     [project |-> 1, start |-> 1, status |-> STATUS_COMPLETED, stopDate |-> 2],
     [project |-> 1, start |-> 1, trashed |-> 1],
     [project |-> 1, type |-> TYPE_HEADING],
     [project |-> NULL],
     [project |-> 4]}

ChildRows(uuid) == {With(BaseRow(uuid), k) : k \in ChildKinds}

InitProject ==
    /\ \E k \in ParentKinds, c2 \in ChildRows(2), c3 \in ChildRows(3) :
          tasks = <<With(BaseRow(1), k), c2, c3>>
    /\ EmptyTables
    /\ now = ClockAt(1)
    /\ InitProcess

NextProject ==
    \/ \E uuid \in {2, 3} : \E row \in ChildRows(uuid) : StoreWrite(row)
    \/ \E uuid \in 1..4 : handleGetProject(uuid)
    \/ handleGetProjects

SpecProject == InitProject /\ [][NextProject]_vars

----------------------------------------------------------------------------
(* SpecConnection: every read route and closeDb() in any order on a store  *)
(* of one row; closeDb() is called at most MaxReopens + 1 times.           *)

MaxReopens == 2

NextConnection ==
    \/ \E list \in VALID_LISTS \cup {"tomorrow"} : handleGetTodos(list)
    \/ \E query \in {<<>>, <<"a">>} : handleSearchTodos(query)
    \/ \E uuid \in {1, 2} : handleGetTodo(uuid)
    \/ handleGetProjects
    \/ \E uuid \in {1, 2} : handleGetProject(uuid)
    \/ handleGetTodosByTag(<<"x">>)
    \/ handleHealth
    \/ handleCapabilities
    \/ Len(connections) <= MaxReopens /\ closeDb

SpecConnection == InitBucket /\ [][NextConnection]_vars

----------------------------------------------------------------------------
(* What the claims speak of *)

TodoRoutes == {"GET /v1/todos", "GET /v1/todos/search", "GET /v1/todos/:uuid",
               "GET /v1/tags/:name/todos"}

Answered(route) == response.route = route /\ response.status = 200

(* The to-dos of the answer, in order (the child to-dos of a project) *)
AnsweredTodos ==
    IF response.route \in TodoRoutes /\ response.status = 200 THEN response.data
    ELSE IF Answered("GET /v1/projects/:uuid") THEN response.todos
    ELSE <<>>

AnsweredList(list) == Answered("GET /v1/todos") /\ response.arg = list

(* The uuids of the answer's to-dos *)
AnsweredUuids == {AnsweredTodos[i].uuid : i \in DOMAIN AnsweredTodos}

----------------------------------------------------------------------------
(* C1, C2: the scheduling bucket *)

(* The precedence list of the bucket, each rule with the negation of the   *)
(* rules before it                                                         *)
PrecedenceBucket(start, startBucket, startDate) ==
    LET a == start = 2
        b == start = 1 /\ startDate # NULL
        c == startBucket = 1
        d == start = 0 /\ startDate = NULL
    IN  CASE a -> "Someday"
          [] ~a /\ b -> "Anytime"
          [] ~a /\ ~b /\ c -> "Someday"
          [] ~a /\ ~b /\ ~c /\ d -> "Inbox"
          [] ~a /\ ~b /\ ~c /\ ~d -> "Anytime"

(* C1: for every combination of start in {0,1,2,null}, startBucket in      *)
(* {0,1,null} and startDate null or not, startToString gives the bucket of *)
(* the first matching rule of the precedence list; so does every to-do     *)
(* that a request returns, for the raw row it was decoded from.            *)
C1_BucketFollowsPrecedence ==
    /\ \A s \in BucketStarts, b \in BucketCodes, d \in BucketDates :
          startToString(s, b, d) = PrecedenceBucket(s, b, d)
    /\ \A i \in DOMAIN AnsweredTodos :
          LET t == tasks[AnsweredTodos[i].uuid]
          IN  AnsweredTodos[i].start
                  = PrecedenceBucket(t.start, t.startBucket, t.startDate)

(* A scheduled row with a start date and the someday bucket code has been  *)
(* returned: the case in which the order of the rules decides              *)
C1_Witness ==
    \E i \in DOMAIN AnsweredTodos :
        LET t == tasks[AnsweredTodos[i].uuid]
        IN  t.start = 1 /\ t.startDate # NULL /\ t.startBucket = 1

(* C2 as stated: every returned row whose bucket code is 1 is Someday *)
C2_SomedayCodeAlwaysSomeday ==
    \A i \in DOMAIN AnsweredTodos :
        tasks[AnsweredTodos[i].uuid].startBucket = 1
            => AnsweredTodos[i].start = "Someday"

(* C2 amended: a returned row whose bucket code is 1 is Someday, except    *)
(* when its start flag is 1 and it has a start date: it is then Anytime.   *)
C2_SomedayCodeUnlessScheduled ==
    \A i \in DOMAIN AnsweredTodos :
        LET t == tasks[AnsweredTodos[i].uuid]
        IN  t.startBucket = 1 =>
                AnsweredTodos[i].start
                    = IF t.start = 1 /\ t.startDate # NULL
                      THEN "Anytime" ELSE "Someday"

(* A row with bucket code 1 that only the bucket rule makes Someday *)
C2_Witness ==
    \E i \in DOMAIN AnsweredTodos :
        LET t == tasks[AnsweredTodos[i].uuid]
        IN  /\ t.startBucket = 1
            /\ t.start = 0
            /\ t.startDate = NULL
            /\ AnsweredTodos[i].start = "Someday"

----------------------------------------------------------------------------
(* C3, C4: trashed rows *)

(* The projects of the answer of GET /v1/projects *)
AnsweredProjects ==
    IF Answered("GET /v1/projects") THEN response.data ELSE <<>>

(* The to-dos of the answer of a listing: a view, the search, the tag      *)
(* query, the children of a project (not the lookup of one to-do)          *)
ListedTodos ==
    IF response.route = "GET /v1/todos/:uuid" THEN <<>> ELSE AnsweredTodos

(* C3: no row with trashed != 0 is returned by a list view (the synthetic  *)
(* template rows of today and upcoming included), by the search, by the    *)
(* tag query, by getProjects, or as a child to-do of getProjectByUuid.     *)
C3_NoTrashedRowListed ==
    /\ \A i \in DOMAIN ListedTodos : tasks[ListedTodos[i].uuid].trashed = 0
    /\ \A i \in DOMAIN AnsweredProjects : tasks[AnsweredProjects[i].uuid].trashed = 0

(* The today view has answered with a to-do while the store holds a        *)
(* trashed row that the view would list were it not trashed                *)
C3_Witness ==
    /\ AnsweredList("today")
    /\ ListedTodos # <<>>
    /\ \E u \in DOMAIN tasks :
          tasks[u].trashed = 1 /\ TodayWhere_NoTrashFilter(tasks[u])

(* C4 as stated: a lookup by uuid of a trashed row is answered 404, as the *)
(* lookup of a uuid that no row has                                        *)
C4_TrashedLookupIsAbsent ==
    \A u \in DOMAIN tasks :
        /\ response.route \in {"GET /v1/todos/:uuid", "GET /v1/projects/:uuid"}
        /\ response.arg = u
        /\ tasks[u].trashed # 0
        => response.status = 404

----------------------------------------------------------------------------
(* C5: the capped views *)

(* The rows the logbook filter matches: a to-do, completed or canceled,    *)
(* not trashed                                                             *)
LogbookMatches ==
    {u \in DOMAIN tasks :
        /\ tasks[u].type = 0
        /\ tasks[u].status \in {2, 3}
        /\ tasks[u].trashed = 0}

(* C5: the search and the logbook return at most 50 entries; when at least *)
(* 50 rows match the logbook filter, the logbook returns exactly 50        *)
(* matching rows, in descending stopDate order, and no matching row left   *)
(* out has a greater stopDate than a row returned.                         *)
C5_CappedViews ==
    /\ Answered("GET /v1/todos/search") => Len(AnsweredTodos) <= 50
    /\ AnsweredList("logbook") =>
          /\ Len(AnsweredTodos) <= 50
          /\ Cardinality(LogbookMatches) >= 50 =>
                /\ Len(AnsweredTodos) = 50
                /\ Cardinality(AnsweredUuids) = 50
                /\ AnsweredUuids \subseteq LogbookMatches
                /\ \A i, j \in DOMAIN AnsweredTodos :
                      i < j => tasks[AnsweredTodos[i].uuid].stopDate
                                   >= tasks[AnsweredTodos[j].uuid].stopDate
                /\ \A u \in LogbookMatches \ AnsweredUuids, v \in AnsweredUuids :
                      tasks[v].stopDate >= tasks[u].stopDate

(* The logbook has answered with 50 entries while more than 50 rows match, *)
(* one of them with a lower uuid than a row left out                       *)
C5_Witness ==
    /\ AnsweredList("logbook")
    /\ Cardinality(LogbookMatches) > 50
    /\ Len(AnsweredTodos) = 50
    /\ \E u \in LogbookMatches \ AnsweredUuids : \E v \in AnsweredUuids : u < v

----------------------------------------------------------------------------
(* C6 - C9: the recurrence-aware views *)

(* Today in the store's encoding, under the offset in use *)
CalibratedToday == todayMidnightUnix(now) - startDateEpochOffset

IsOpen(u) ==
    tasks[u].type = 0 /\ tasks[u].status = 0 /\ tasks[u].trashed = 0

(* A row of the concrete filter of today *)
IsConcrete(u) ==
    IsOpen(u) /\ tasks[u].start = 1 /\ tasks[u].startDate # NULL

(* An open to-do with a rule that is not paused *)
IsActiveRecurring(u) ==
    /\ IsOpen(u)
    /\ tasks[u].rt1_recurrenceRule # NULL
    /\ tasks[u].rt1_instanceCreationPaused = 0

(* A row of the template filter of today *)
IsDueTemplate(u) ==
    /\ IsActiveRecurring(u)
    /\ tasks[u].rt1_nextInstanceStartDate # NULL
    /\ tasks[u].rt1_nextInstanceStartDate >= CalibratedToday - 86400
    /\ tasks[u].rt1_nextInstanceStartDate < CalibratedToday + 86400

(* A recurring template without a concrete start date *)
IsTemplate(u) == IsActiveRecurring(u) /\ tasks[u].startDate = NULL

PositionsOf(u) == {i \in DOMAIN AnsweredTodos : AnsweredTodos[i].uuid = u}

(* C6: in the today view no uuid occurs twice, and a row that matches both *)
(* the concrete filter and the template filter has one entry, among the    *)
(* entries of the concrete rows and with the concrete row's decoded start  *)
(* date (not the next occurrence).                                         *)
C6_TodayDedup ==
    AnsweredList("today") =>
        /\ \A u \in DOMAIN tasks : Cardinality(PositionsOf(u)) <= 1
        /\ \A u \in DOMAIN tasks :
              IsConcrete(u) /\ IsDueTemplate(u) =>
                  \E i \in PositionsOf(u) :
                      /\ i <= Cardinality({v \in DOMAIN tasks : IsConcrete(v)})
                      /\ AnsweredTodos[i].start = "Anytime"
                      /\ AnsweredTodos[i].startDate
                             = (tasks[u].startDate + startDateEpochOffset) \div 86400

(* Today has answered for a row of both filters whose next occurrence is   *)
(* on another day than its start date                                      *)
C6_Witness ==
    /\ AnsweredList("today")
    /\ \E u \in AnsweredUuids :
          /\ IsConcrete(u)
          /\ IsDueTemplate(u)
          /\ tasks[u].rt1_nextInstanceStartDate # tasks[u].startDate

(* C7: with the offset fixed, a template (open, not paused, no concrete    *)
(* start date) whose next occurrence is today + 86400 is returned by       *)
(* upcoming and not by today; when the clock advances by a day its next    *)
(* occurrence is today's value, and a template whose next occurrence is    *)
(* today's value is returned by today.                                     *)
C7_TomorrowsTemplate ==
    /\ [](\A u \in DOMAIN tasks :
            /\ (/\ AnsweredList("upcoming")
                /\ IsTemplate(u)
                /\ tasks[u].rt1_nextInstanceStartDate = CalibratedToday + 86400)
               => u \in AnsweredUuids
            /\ (/\ AnsweredList("today")
                /\ IsTemplate(u)
                /\ tasks[u].rt1_nextInstanceStartDate = CalibratedToday + 86400)
               => u \notin AnsweredUuids
            /\ (/\ AnsweredList("today")
                /\ IsTemplate(u)
                /\ tasks[u].rt1_nextInstanceStartDate = CalibratedToday)
               => u \in AnsweredUuids)
    /\ [][\A u \in DOMAIN tasks :
            (/\ startDateEpochOffset # NULL
             /\ now' = now + 86400
             /\ IsTemplate(u)
             /\ tasks[u].rt1_nextInstanceStartDate = CalibratedToday + 86400)
            => /\ startDateEpochOffset' = startDateEpochOffset
               /\ tasks'[u] = tasks[u]
               /\ tasks[u].rt1_nextInstanceStartDate = CalibratedToday']_vars

(* Today has answered on day 2 under the offset that was fixed on day 1    *)
(* against a row scheduled for raw day 2, with a template whose next       *)
(* occurrence was tomorrow on day 1                                        *)
C7_Witness ==
    /\ AnsweredList("today")
    /\ now = ClockAt(2)
    /\ startDateEpochOffset = todayMidnightUnix(ClockAt(1)) - 2 * 86400
    /\ \E u \in AnsweredUuids :
          /\ IsTemplate(u)
          /\ tasks[u].rt1_nextInstanceStartDate = CalibratedToday
          /\ tasks[u].rt1_nextInstanceStartDate
                 = todayMidnightUnix(ClockAt(1)) - startDateEpochOffset + 86400

(* The effective date of a row as C8 defines it: the raw start date of a   *)
(* concrete row, the next occurrence of a row without a start date         *)
EffectiveDate(u) ==
    IF tasks[u].startDate # NULL THEN tasks[u].startDate
    ELSE tasks[u].rt1_nextInstanceStartDate

(* C8 as stated: upcoming is sorted ascending by effective date *)
C8_UpcomingSortedByEffectiveDate ==
    AnsweredList("upcoming") =>
        \A i, j \in DOMAIN AnsweredTodos :
            i < j => EffectiveDate(AnsweredTodos[i].uuid)
                         <= EffectiveDate(AnsweredTodos[j].uuid)

(* C9 as stated: upcoming returns only future items *)
C9_UpcomingOnlyFuture ==
    AnsweredList("upcoming") =>
        \A u \in AnsweredUuids :
            IF tasks[u].startDate = NULL
            THEN tasks[u].rt1_nextInstanceStartDate > CalibratedToday
            ELSE tasks[u].startDate > CalibratedToday

----------------------------------------------------------------------------
(* C10: the calibration cache *)

RawDates == {0, SecondsPerDay, SecondsPerDay + HalfDay, 4 * SecondsPerDay}

(* C10: the offset is computed at most once: the store is queried for it   *)
(* at most once, and once it is set no request, store write or clock       *)
(* advance changes it or queries again, so the date decoded from a raw     *)
(* value stays the same; every date in an answer is decoded under it.      *)
C10_CalibratedOnce ==
    /\ [](calibrationQueries <= 1)
    /\ [](\A i \in DOMAIN AnsweredTodos :
            tasks[AnsweredTodos[i].uuid].startDate # NULL =>
                AnsweredTodos[i].startDate =
                    thingsScheduleDateToString(
                        tasks[AnsweredTodos[i].uuid].startDate,
                        startDateEpochOffset))
    /\ [][startDateEpochOffset # NULL =>
            /\ startDateEpochOffset' = startDateEpochOffset
            /\ calibrationQueries' = calibrationQueries
            /\ \A raw \in RawDates :
                  thingsScheduleDateToString(raw, startDateEpochOffset')
                      = thingsScheduleDateToString(raw, startDateEpochOffset)]_vars

(* A request has answered with a dated to-do under an offset that a fresh  *)
(* calibration against the present store and clock would not give          *)
C10_Witness ==
    /\ startDateEpochOffset # NULL
    /\ calibrationQueries = 1
    /\ \E i \in DOMAIN AnsweredTodos :
          tasks[AnsweredTodos[i].uuid].startDate # NULL
    /\ calibrateStartDateEpoch(NULL, tasks, now) # startDateEpochOffset

----------------------------------------------------------------------------
(* C11, C12: the value of the calibration *)

(* The rows the calibration may take as its reference *)
ReferenceRows ==
    {u \in DOMAIN tasks :
        /\ tasks[u].start = 1
        /\ tasks[u].startDate # NULL
        /\ tasks[u].status = 0
        /\ tasks[u].trashed = 0}

(* A step that sets the offset *)
Calibrates == startDateEpochOffset = NULL /\ startDateEpochOffset' # NULL

(* C11: a first calibration over a store without a reference row sets the  *)
(* offset to 1637712000, the request is answered, and the offset stays     *)
(* 1637712000 whatever is written to the store afterwards.                 *)
C11_FallbackOffset ==
    /\ [][Calibrates /\ ReferenceRows = {} =>
            /\ startDateEpochOffset' = 1637712000
            /\ response'.status = 200]_vars
    /\ [][startDateEpochOffset = 1637712000 =>
            startDateEpochOffset' = 1637712000]_vars

(* A request is answered under the fallback offset, which no calibration   *)
(* against a row gives on these days, after the clock advanced and the     *)
(* store got a reference row                                               *)
C11_Witness ==
    /\ startDateEpochOffset = 1637712000
    /\ response.route # "none"
    /\ now > ClockAt(2)
    /\ ReferenceRows # {}

(* C12: a first calibration over a store with reference rows sets the      *)
(* offset to floor(now/86400)*86400 - floor(rawValue/86400)*86400 for the  *)
(* greatest reference startDate rawValue; the offset is always a multiple  *)
(* of 86400.                                                               *)
C12_OffsetFormula ==
    /\ [][Calibrates /\ ReferenceRows # {} =>
            \E r \in ReferenceRows :
                /\ \A u \in ReferenceRows : tasks[u].startDate <= tasks[r].startDate
                /\ startDateEpochOffset' =
                       (now \div 86400) * 86400
                       - (tasks[r].startDate \div 86400) * 86400]_vars
    /\ [](startDateEpochOffset # NULL => startDateEpochOffset % 86400 = 0)

(* A request is answered at a time of day that is not midnight under an    *)
(* offset taken from the greatest of two reference rows, itself not a      *)
(* multiple of 86400                                                       *)
C12_Witness ==
    /\ response.route # "none"
    /\ now % 86400 # 0
    /\ calibrationQueries = 1
    /\ \E r, q \in ReferenceRows :
          /\ tasks[q].startDate < tasks[r].startDate
          /\ tasks[r].startDate % 86400 # 0
          /\ \A u \in ReferenceRows : tasks[u].startDate <= tasks[r].startDate
          /\ startDateEpochOffset =
                 (now \div 86400) * 86400 - (tasks[r].startDate \div 86400) * 86400
          /\ startDateEpochOffset # 1637712000

----------------------------------------------------------------------------
(* C13, C14: names and uuids that select nothing *)

(* C13: getTodosByList with a name that is none of inbox, today, upcoming, *)
(* anytime, someday, logbook returns the empty sequence, whatever the      *)
(* store holds, and does not calibrate.                                    *)
C13_UnknownViewIsEmpty ==
    /\ []((/\ response.route = "getTodosByList"
           /\ response.arg \notin {"inbox", "today", "upcoming",
                                   "anytime", "someday", "logbook"})
          => response.data = <<>>)
    /\ [][(/\ response'.route = "getTodosByList"
           /\ response'.arg \notin {"inbox", "today", "upcoming",
                                    "anytime", "someday", "logbook"})
          => UNCHANGED <<startDateEpochOffset, calibrationQueries>>]_vars

(* getTodosByList("Inbox") has returned over a store with a row of the     *)
(* inbox                                                                   *)
C13_Witness ==
    /\ response.route = "getTodosByList"
    /\ response.arg = "Inbox"
    /\ \E u \in DOMAIN tasks :
          tasks[u].type = 0 /\ tasks[u].status = 0
          /\ tasks[u].trashed = 0 /\ tasks[u].start = 0

(* C14: a lookup of a uuid that no row of the requested kind has (no row   *)
(* at all, or a row of another kind) is answered 404.                      *)
C14_MissingLookupIs404 ==
    /\ (/\ response.route = "GET /v1/todos/:uuid"
        /\ ~ \E u \in DOMAIN tasks : u = response.arg /\ tasks[u].type = 0)
       => response.status = 404
    /\ (/\ response.route = "GET /v1/projects/:uuid"
        /\ ~ \E u \in DOMAIN tasks : u = response.arg /\ tasks[u].type = 1)
       => response.status = 404

(* A to-do lookup of a project's uuid, or a project lookup of a to-do's    *)
(* uuid, has been answered 404                                             *)
C14_Witness ==
    /\ response.route \in {"GET /v1/todos/:uuid", "GET /v1/projects/:uuid"}
    /\ response.status = 404
    /\ response.arg \in DOMAIN tasks

----------------------------------------------------------------------------
(* C15, C16: what rowToTodo exposes of the recurrence columns *)

(* The label C15 gives a blob *)
LabelOf(blob) ==
    CASE blob = NULL -> <<>>
      [] blob = BlobWithoutFu -> <<>>
      [] blob = 4 -> <<"daily">>
      [] blob = 256 -> <<"weekly">>
      [] blob = 16 -> <<"monthly">>
      [] blob = 2048 -> <<"yearly">>
      [] OTHER -> <<"every-", blob>>

C16_EffectiveStartDate ==
    \A i \in DOMAIN AnsweredTodos :
        LET t == tasks[AnsweredTodos[i].uuid]
            decoded(raw) ==
                IF raw = NULL THEN NULL
                ELSE (raw + startDateEpochOffset) \div 86400
        IN  AnsweredTodos[i].startDate =
                IF t.startDate # NULL THEN decoded(t.startDate)
                ELSE IF t.rt1_recurrenceRule # NULL
                     THEN decoded(t.rt1_nextInstanceStartDate)
                     ELSE NULL

(* A to-do without start date and blob but with a stored next occurrence   *)
(* has been answered, without startDate and with nextInstanceDate          *)
C16_Witness ==
    \E i \in DOMAIN AnsweredTodos :
        LET t == tasks[AnsweredTodos[i].uuid]
        IN  /\ t.startDate = NULL
            /\ t.rt1_recurrenceRule = NULL
            /\ t.rt1_nextInstanceStartDate # NULL
            /\ AnsweredTodos[i].startDate = NULL
            /\ AnsweredTodos[i].nextInstanceDate # NULL

----------------------------------------------------------------------------
(* C17: the area of a to-do *)

(* The area C17 resolves for the row of uuid u: its own, else that of the  *)
(* row its project column names                                            *)
ResolvedArea(u) ==
    IF tasks[u].area # NULL THEN tasks[u].area
    ELSE IF tasks[u].project \in DOMAIN tasks THEN tasks[tasks[u].project].area
    ELSE NULL

(* C17: the area of every answered to-do is its own area when set, else    *)
(* the area of its project, else absent; areaTitle is the title of that    *)
(* area in TMArea.                                                         *)
C17_AreaInherited ==
    \A i \in DOMAIN AnsweredTodos :
        LET a == ResolvedArea(AnsweredTodos[i].uuid)
        IN  /\ AnsweredTodos[i].area = a
            /\ AnsweredTodos[i].areaTitle =
                   IF a \in DOMAIN tmArea THEN tmArea[a] ELSE NullText

(* A to-do without an area of its own, in a project of area 2, has been    *)
(* answered with area 2 and its title                                      *)
C17_Witness ==
    \E i \in DOMAIN AnsweredTodos :
        LET t == tasks[AnsweredTodos[i].uuid]
        IN  /\ t.area = NULL
            /\ t.project \in DOMAIN tasks
            /\ tasks[t.project].type = 1
            /\ tasks[t.project].area = 2
            /\ AnsweredTodos[i].area = 2
            /\ AnsweredTodos[i].areaTitle = <<"y">>

----------------------------------------------------------------------------
(* C18: authentication *)

(* The header is "Bearer", white space, and the configured token *)
IsBearerToken(header) ==
    \E i \in 7..Len(header) :
        /\ IsBearerWord(SubSeq(header, 1, 6))
        /\ \A j \in 7..i : header[j] \in Whitespace
        /\ SubSeq(header, i + 1, Len(header)) = ConfigToken

IsOpenPath == request.pathname \in {"/health", "/v1/capabilities"}

(* C18 as stated: a request for another path than /health and             *)
(* /v1/capabilities gets past requireAuth only with a header "Bearer       *)
(* <token>" of the configured token; every other one is answered 401, 403  *)
(* or 500 by requireAuth and nothing is queried for it.                    *)
C18_OnlyBearerTokenPasses ==
    (response # NoResponse /\ ~ IsOpenPath /\ ~ IsBearerToken(request.header))
    => /\ response.route = "requireAuth"
       /\ response.status \in {401, 403, 500}
       /\ calibrationQueries = 0

----------------------------------------------------------------------------
(* C19, C20: the order and the synthetic rows of the today view *)

(* The number of rows of the concrete filter of today *)
ConcreteCount == Cardinality({u \in DOMAIN tasks : IsConcrete(u)})

(* The uuids of the answer after the entries of the concrete rows *)
SyntheticUuids ==
    {AnsweredTodos[i].uuid : i \in {j \in DOMAIN AnsweredTodos : j > ConcreteCount}}

(* C19 as stated: the whole today answer is ordered by todayIndex *)
C19_TodayOrderedByIndex ==
    AnsweredList("today") =>
        \A i, j \in DOMAIN AnsweredTodos :
            i < j => tasks[AnsweredTodos[i].uuid].todayIndex
                         <= tasks[AnsweredTodos[j].uuid].todayIndex

(* C19 amended: the today answer is the concrete rows ordered by           *)
(* todayIndex ascending, followed by the synthetic rows ordered by next    *)
(* occurrence ascending.                                                   *)
C19_ConcreteOrderedThenSynthetic ==
    AnsweredList("today") =>
        /\ \A i \in DOMAIN AnsweredTodos :
              IsConcrete(AnsweredTodos[i].uuid) <=> i <= ConcreteCount
        /\ \A i, j \in DOMAIN AnsweredTodos :
              i < j /\ j <= ConcreteCount =>
                  tasks[AnsweredTodos[i].uuid].todayIndex
                      <= tasks[AnsweredTodos[j].uuid].todayIndex
        /\ \A i, j \in DOMAIN AnsweredTodos :
              ConcreteCount < i /\ i < j =>
                  tasks[AnsweredTodos[i].uuid].rt1_nextInstanceStartDate
                      <= tasks[AnsweredTodos[j].uuid].rt1_nextInstanceStartDate

(* Today has answered with a concrete row and, after it, a synthetic row   *)
(* of a lower todayIndex                                                   *)
C19_Witness ==
    /\ AnsweredList("today")
    /\ Len(AnsweredTodos) = 2
    /\ IsConcrete(AnsweredTodos[1].uuid)
    /\ ~ IsConcrete(AnsweredTodos[2].uuid)
    /\ tasks[AnsweredTodos[2].uuid].todayIndex
           < tasks[AnsweredTodos[1].uuid].todayIndex

(* C20 as stated: the synthetic rows of today are exactly the open to-dos  *)
(* with a blob, not paused, not concrete, whose next occurrence lies in    *)
(* today - 86400 through today + 86400.                                    *)
C20_SyntheticWithinOneDay ==
    AnsweredList("today") =>
        SyntheticUuids =
            {u \in DOMAIN tasks :
                /\ IsActiveRecurring(u)
                /\ ~ IsConcrete(u)
                /\ tasks[u].rt1_nextInstanceStartDate # NULL
                /\ tasks[u].rt1_nextInstanceStartDate >= CalibratedToday - 86400
                /\ tasks[u].rt1_nextInstanceStartDate <= CalibratedToday + 86400}

(* C20 amended: the synthetic rows of today are exactly the open to-dos    *)
(* with a blob, not paused, not concrete, whose next occurrence is at      *)
(* least today - 86400 and less than today + 86400; a paused template or   *)
(* one without next occurrence is never among them.                        *)
C20_SyntheticInHalfOpenWindow ==
    AnsweredList("today") =>
        /\ SyntheticUuids =
              {u \in DOMAIN tasks :
                  /\ IsActiveRecurring(u)
                  /\ ~ IsConcrete(u)
                  /\ tasks[u].rt1_nextInstanceStartDate # NULL
                  /\ tasks[u].rt1_nextInstanceStartDate >= CalibratedToday - 86400
                  /\ tasks[u].rt1_nextInstanceStartDate < CalibratedToday + 86400}
        /\ \A u \in SyntheticUuids :
              /\ tasks[u].rt1_instanceCreationPaused = 0
              /\ tasks[u].rt1_nextInstanceStartDate # NULL

(* Today has answered with a synthetic row while the store holds a paused  *)
(* template whose next occurrence is today                                 *)
C20_Witness ==
    /\ AnsweredList("today")
    /\ SyntheticUuids # {}
    /\ \E u \in DOMAIN tasks :
          /\ tasks[u].rt1_recurrenceRule # NULL
          /\ tasks[u].rt1_instanceCreationPaused = 1
          /\ tasks[u].rt1_nextInstanceStartDate = CalibratedToday
          /\ u \notin AnsweredUuids

----------------------------------------------------------------------------
(* C21: search *)

(* Whether hay contains needle as a substring, letters compared without    *)
(* case                                                                    *)
ContainsLiteral(hay, needle) ==
    /\ hay # NullText
    /\ \E i \in 0..(Len(hay) - Len(needle)) :
          \A j \in 1..Len(needle) : Lower(hay[i + j]) = Lower(needle[j])

(* C21 as stated: a search answers only with non-trashed to-dos whose      *)
(* title or notes contains the query as a literal substring, letters       *)
(* compared without case, in descending order of modification time.        *)
C21_SearchLiteralSubstring ==
    Answered("GET /v1/todos/search") =>
        /\ \A i \in DOMAIN AnsweredTodos :
              LET t == tasks[AnsweredTodos[i].uuid]
              IN  /\ t.type = 0
                  /\ t.trashed = 0
                  /\ \/ ContainsLiteral(t.title, response.arg)
                     \/ ContainsLiteral(t.notes, response.arg)
        /\ \A i, j \in DOMAIN AnsweredTodos :
              i < j => tasks[AnsweredTodos[i].uuid].userModificationDate
                           >= tasks[AnsweredTodos[j].uuid].userModificationDate

----------------------------------------------------------------------------
(* C22: the connection *)

(* The connections that are open *)
OpenConnections == {i \in DOMAIN connections : connections[i].open}

(* A step that changes the connection state the way closeDb() does *)
ClosesDb ==
    /\ db # NULL
    /\ db' = NULL
    /\ connections' = [connections EXCEPT ![db].open = FALSE]

(* A step that opens a fresh read-only connection and keeps it in the      *)
(* module variable                                                         *)
OpensDb ==
    /\ db = NULL
    /\ db' = Len(connections) + 1
    /\ connections' = Append(connections, NewConnection)

(* C22: at most one connection is open at any time, and it is the          *)
(* read-only connection the module variable holds; a step leaves the       *)
(* connection state alone (getDb returned the connection it holds), or     *)
(* opens one while none is held (the first getDb, or the first after       *)
(* closeDb), or closes the one held (closeDb).                             *)
C22_SingleConnection ==
    /\ [](/\ Cardinality(OpenConnections) <= 1
          /\ db = NULL => OpenConnections = {}
          /\ db # NULL => /\ OpenConnections = {db}
                          /\ connections[db].readonly)
    /\ [][\/ UNCHANGED <<db, connections>>
          \/ OpensDb
          \/ ClosesDb]_vars

(* A query has been answered over the second connection, opened after the  *)
(* first was closed                                                        *)
C22_Witness ==
    /\ Len(connections) = 2
    /\ ~connections[1].open
    /\ db = 2
    /\ response # NoResponse
    /\ "status" \in DOMAIN response
    /\ response.status = 200
    /\ response.route = "GET /v1/todos/:uuid"

----------------------------------------------------------------------------
(* C23: status and kind codes *)

(* The status word the documentation gives a status code *)
StatusWord(code) ==
    IF code = 3 THEN "completed" ELSE IF code = 2 THEN "canceled" ELSE "incomplete"

(* The kind word the documentation gives a kind code *)
KindWord(code) ==
    IF code = 1 THEN "project" ELSE IF code = 2 THEN "heading" ELSE "to-do"

(* The to-dos decoded last: those of an answer, or the one rowToTodo gave  *)
DecodedTodos ==
    IF response.route = "rowToTodo" THEN response.data ELSE AnsweredTodos

(* The checklist item rows of a task *)
ItemRow(task, uuid) ==
    CHOOSE c \in tmChecklistItem : c.task = task /\ c.uuid = uuid

(* C23: every decoded to-do has the status word and the kind word of its   *)
(* row's codes, every code other than 3 and 2 giving "incomplete" and      *)
(* every code other than 1 and 2 giving "to-do"; each of its checklist     *)
(* items has the status word of the item's code; a decoded project has the *)
(* status word of its row's code; and rowToTodo and the lookup give a      *)
(* result on every row (they do not raise).                                *)
C23_UnknownCodesDecode ==
    /\ \A i \in DOMAIN DecodedTodos :
          LET todo == DecodedTodos[i]
              row == tasks[todo.uuid]
          IN  /\ todo.status = StatusWord(row.status)
              /\ todo.type = KindWord(row.type)
              /\ \A k \in DOMAIN todo.checklist :
                    todo.checklist[k].status =
                        StatusWord(ItemRow(todo.uuid, todo.checklist[k].uuid).status)
    /\ Answered("GET /v1/projects/:uuid") =>
           response.data[1].status = StatusWord(tasks[response.arg].status)
    /\ \A u \in DOMAIN tasks : ENABLED rowToTodoCall(u)
    /\ \A u \in DOMAIN tasks : ENABLED handleGetTodo(u)

(* rowToTodo has decoded a row whose status code and kind code are both    *)
(* unknown to the program, with a checklist item of unknown status code    *)
C23_Witness ==
    /\ response.route = "rowToTodo"
    /\ tasks[1].status = 7
    /\ tasks[1].type = 3
    /\ response.data[1].status = "incomplete"
    /\ response.data[1].type = "to-do"
    /\ Len(response.data[1].checklist) = 1
    /\ \E c \in tmChecklistItem : c.status \in {1, 7}

----------------------------------------------------------------------------
(* C24, C25: creating a to-do *)

(* POST /v1/todos has run createTodo on the body response.arg *)
Created == response.route = "POST /v1/todos" /\ scripts # <<>>

(* Whether the word names one of the built-in lists *)
NamesBuiltInList(word) ==
    toLowerCase(word) \in {"inbox", "today", "anytime", "someday", "upcoming"}

(* C24 as stated: whenever the list field of a create request names        *)
(* something other than a built-in list, the make script places the new    *)
(* to-do in the project of that name, whatever the value of when.          *)
C24_ListNamesProject ==
    (/\ Created
     /\ ~Falsy(response.arg.list)
     /\ ~NamesBuiltInList(response.arg.list))
        => /\ scripts[1].kind = "make"
           /\ scripts[1].place = "project"
           /\ scripts[1].name = escapeAS(response.arg.list)

(* The follow-up scripts a create request calls for *)
FollowUpKinds(req) ==
    (IF ~Falsy(req.when)
        /\ req.when \notin {"today", "tomorrow", "evening", "anytime", "someday"}
     THEN {"schedule"} ELSE {})
    \cup (IF req.when = "tomorrow" THEN {"scheduleTomorrow"} ELSE {})
    \cup (IF req.checklist # NoList /\ Len(req.checklist) > 0
          THEN {"appendNotes"} ELSE {})

(* C25: when the make script succeeds the request is answered 201 with the *)
(* name the script returned, whether or not the follow-up scripts (all of  *)
(* which are run) succeed; when the make script fails no other script is   *)
(* run and the answer is 500.                                              *)
C25_PrimaryDecides ==
    Created =>
        /\ scripts[1].kind = "make"
        /\ scripts[1].ok =>
               /\ response.status = 201
               /\ response.title = trim(response.arg.title)
               /\ {scripts[k].kind : k \in 2..Len(scripts)}
                      = FollowUpKinds(response.arg)
        /\ ~scripts[1].ok =>
               /\ Len(scripts) = 1
               /\ response.status = 500

(* A to-do was created with a date and a checklist, and both follow-up     *)
(* scripts failed                                                          *)
C25_Witness ==
    /\ Created
    /\ response.status = 201
    /\ Len(scripts) = 3
    /\ scripts[1].ok
    /\ ~scripts[2].ok
    /\ ~scripts[3].ok

(* The make script of a create request failed *)
C25_WitnessRejected ==
    /\ Created
    /\ ~scripts[1].ok
    /\ response.status = 500

----------------------------------------------------------------------------
(* C26: the routes that change one to-do *)

WriteRoutes == {"PATCH /v1/todos/:uuid", "POST /v1/todos/:uuid/complete",
                "POST /v1/todos/:uuid/cancel", "DELETE /v1/todos/:uuid"}

(* C26: a request of a write route has run scripts only if the lookup of   *)
(* its uuid gives a to-do (and the lookup was made: the connection is      *)
(* open); when the lookup gives none the answer is 404 (400 for a body     *)
(* that is not JSON) and no script was run; when a script of the request   *)
(* failed the answer is 500; and the answer is 200 only when every script  *)
(* succeeded.                                                              *)
C26_LookupGuardsScripts ==
    response.route \in WriteRoutes =>
        /\ response.status \in {200, 400, 404, 500}
        /\ scripts # <<>> => /\ TodoByUuidRow(response.arg) # {}
                             /\ db # NULL
                             /\ \A k \in DOMAIN scripts : scripts[k].id = response.arg
        /\ TodoByUuidRow(response.arg) = {} =>
               /\ response.status \in {404, 400}
               /\ scripts = <<>>
        /\ response.status = 404 => TodoByUuidRow(response.arg) = {}
        /\ (\E k \in DOMAIN scripts : ~scripts[k].ok) => response.status = 500
        /\ response.status = 200 =>
               /\ scripts # <<>>
               /\ \A k \in DOMAIN scripts : scripts[k].ok

(* An update ran its property script, then its move script failed, and was *)
(* answered 500                                                            *)
C26_Witness ==
    /\ response.route = "PATCH /v1/todos/:uuid"
    /\ Len(scripts) = 2
    /\ scripts[1].ok
    /\ ~scripts[2].ok
    /\ response.status = 500

(* A delete of a uuid that no to-do has was answered 404 without a script  *)
C26_WitnessMissing ==
    /\ response.route = "DELETE /v1/todos/:uuid"
    /\ response.status = 404
    /\ scripts = <<>>
    /\ db # NULL

----------------------------------------------------------------------------
(* C27: views and buckets *)

(* C27: every to-do of the inbox view has start "Inbox", every to-do of    *)
(* the someday view has start "Someday", every to-do of the anytime view   *)
(* has start "Anytime", and every to-do of the today or the upcoming view  *)
(* whose row has start = 1 and a start date has start "Anytime".           *)
C27_ViewAgreesWithBucket ==
    \A i \in DOMAIN AnsweredTodos :
        LET todo == AnsweredTodos[i]
            row == tasks[todo.uuid]
        IN  /\ AnsweredList("inbox") => todo.start = "Inbox"
            /\ AnsweredList("someday") => todo.start = "Someday"
            /\ AnsweredList("anytime") => todo.start = "Anytime"
            /\ (/\ AnsweredList("today") \/ AnsweredList("upcoming")
                /\ row.start = 1
                /\ row.startDate # NULL) => todo.start = "Anytime"

(* Today has answered with a scheduled row that carries the someday        *)
(* bucket code                                                             *)
C27_Witness ==
    /\ AnsweredList("today")
    /\ Len(AnsweredTodos) = 1
    /\ tasks[1].start = 1
    /\ tasks[1].startDate # NULL
    /\ tasks[1].startBucket = START_BUCKET_SOMEDAY
    /\ AnsweredTodos[1].start = "Anytime"

(* Each of the views has answered with a to-do *)
C27_WitnessInbox == AnsweredList("inbox") /\ Len(AnsweredTodos) = 1

C27_WitnessSomeday ==
    AnsweredList("someday") /\ Len(AnsweredTodos) = 1 /\ tasks[1].startBucket # 1

C27_WitnessAnytime ==
    AnsweredList("anytime") /\ Len(AnsweredTodos) = 1 /\ tasks[1].startDate = NULL

C27_WitnessUpcoming == AnsweredList("upcoming") /\ Len(AnsweredTodos) = 1

----------------------------------------------------------------------------
(* C28: dates right after a calibration *)

(* The current UTC calendar date *)
UtcToday == now \div 86400

(* C28: a step that calibrates over a store with reference rows leaves an  *)
(* offset under which the reference row (the greatest start date among the *)
(* rows with start = 1, status 0, not trashed, with a start date) decodes  *)
(* to the current UTC date and every such row decodes to a date no later;  *)
(* the to-dos of the step's answer that are such rows carry these dates.   *)
C28_ReferenceIsToday ==
    [][Calibrates /\ ReferenceRows # {} =>
          /\ \E r \in ReferenceRows :
                /\ \A u \in ReferenceRows : tasks[u].startDate <= tasks[r].startDate
                /\ thingsScheduleDateToString(tasks[r].startDate,
                                              startDateEpochOffset') = UtcToday
          /\ \A u \in ReferenceRows :
                thingsScheduleDateToString(tasks[u].startDate,
                                           startDateEpochOffset') <= UtcToday
          /\ \A i \in DOMAIN AnsweredTodos' :
                AnsweredTodos'[i].uuid \in ReferenceRows =>
                    /\ AnsweredTodos'[i].startDate # NULL
                    /\ AnsweredTodos'[i].startDate <= UtcToday]_vars

(* A view was answered by the request that calibrated, at a time of day    *)
(* that is not midnight, with the reference row on the current date and    *)
(* another scheduled row on an earlier date                                *)
C28_Witness ==
    /\ Answered("GET /v1/todos")
    /\ calibrationQueries = 1
    /\ now % 86400 # 0
    /\ startDateEpochOffset = calibrateStartDateEpoch(NULL, tasks, now)
    /\ \E i, j \in DOMAIN AnsweredTodos :
          /\ AnsweredTodos[i].uuid \in ReferenceRows
          /\ AnsweredTodos[j].uuid \in ReferenceRows
          /\ AnsweredTodos[i].startDate = UtcToday
          /\ AnsweredTodos[j].startDate < UtcToday

----------------------------------------------------------------------------
(* C29: a project and its to-dos *)

(* C29: the project of an answered project lookup has todoCount equal to   *)
(* the number of entries of its todos, each entry is a to-do whose project *)
(* is the requested uuid, and no to-do is entered twice.                   *)
C29_CountMatchesTodos ==
    Answered("GET /v1/projects/:uuid") =>
        /\ response.data[1].uuid = response.arg
        /\ response.data[1].todoCount = Len(response.todos)
        /\ \A i \in DOMAIN response.todos :
              /\ response.todos[i].project = response.arg
              /\ tasks[response.todos[i].uuid].project = response.arg
        /\ \A i, j \in DOMAIN response.todos :
              response.todos[i].uuid = response.todos[j].uuid => i = j

(* A project was answered with one to-do, a completed one, while its other *)
(* child is trashed                                                        *)
C29_Witness ==
    /\ Answered("GET /v1/projects/:uuid")
    /\ response.data[1].todoCount = 1
    /\ Len(response.todos) = 1
    /\ response.todos[1].status = "completed"
    /\ \E u \in DOMAIN tasks : tasks[u].project = 1 /\ tasks[u].trashed = 1

(* A project was answered with two to-dos *)
C29_WitnessTwo ==
    /\ Answered("GET /v1/projects/:uuid")
    /\ response.data[1].todoCount = 2

----------------------------------------------------------------------------
(* C30: the upcoming view as the caller sees it *)

(* C30 as stated: the to-dos of an upcoming answer have distinct uuids and *)
(* their startDate fields, as answered, never decrease along the answer,   *)
(* on every store (rows with a start date and a recurrence blob, with or   *)
(* without a next-occurrence value, included).                             *)
C30_UpcomingDistinctAndOrdered ==
    AnsweredList("upcoming") =>
        /\ \A i, j \in DOMAIN response.data :
              response.data[i].uuid = response.data[j].uuid => i = j
        /\ \A i, j \in DOMAIN response.data :
              i < j => response.data[i].startDate <= response.data[j].startDate

====
